---- MODULE Spec2Model ----
(***************************************************************************)
(* Resource & Cost Extraction Engine of devops-universal-scanner           *)
(* (core/analyzers/finops/cost_analyzer.py, core/data/cost_estimates.py).  *)
(*                                                                         *)
(* Conventions                                                             *)
(*  - A Python str on which the code does character work (instance types,  *)
(*    resource names, volume types) is a tuple of one-character strings.   *)
(*    A str that the code only compares or looks up (resource types,       *)
(*    attribute names) is a TLA+ string.                                   *)
(*  - Python None is the value None below; a dict is a record and          *)
(*    d.get(k, default) is Get(d, k, default).                             *)
(*  - Money is an integer number of mills (1/1000 USD): 60.74 USD = 60740. *)
(*  - Terraform text is a sequence of lexical tokens (a resource header,   *)
(*    a brace, a block keyword, an attribute assignment); the regular      *)
(*    expressions of the code are matched over tokens with the priority    *)
(*    order of the backtracking matcher of Python's re.                    *)
(***************************************************************************)
EXTENDS Integers, Sequences, FiniteSets, TLC

VARIABLES
    pc,                 \* "ready" before the call, "done" after it
    op,                 \* the method that was called
    arg,                \* the argument(s) of the call
    ret,                \* the value the call returned
    raised,             \* TRUE when an exception left the call
    cost_breakdowns,    \* CostAnalyzer.cost_breakdowns
    total_monthly_cost, \* CostAnalyzer.total_monthly_cost
    yaml_multi_constructors,
                        \* the tag prefixes with a multi-constructor in the
                        \* table of the class yaml.SafeLoader (process-wide)
    previous,           \* what the caller keeps of its previous call on
                        \* the same input
    cache,              \* PricingCache._cache: key -> entry
    time,               \* time.time(), in seconds
    api,                \* the fields of the pricing API object
    logger,             \* ScanLogger: file_handle and the lines written
    results             \* ToolRunner.results: tool name -> ToolResult

\* The objects around the analyzers: the pricing layer, the logger and the
\* tool runner
env == <<cache, time, api, logger, results>>

vars == <<pc, op, arg, ret, raised, cost_breakdowns, total_monthly_cost,
          yaml_multi_constructors, previous, cache, time, api, logger,
          results>>

-----------------------------------------------------------------------------
(* Python values                                                           *)

None == <<"None">>

Get(d, k, default) == IF k \in DOMAIN d THEN d[k] ELSE default

Truthy(s) == s # None /\ s # <<>>

RECURSIVE SeqSum(_)
SeqSum(s) == IF s = <<>> THEN 0 ELSE Head(s) + SeqSum(Tail(s))

RECURSIVE Gcd(_, _)
Gcd(a, b) == IF b = 0 THEN a ELSE Gcd(b, a % b)

\* The quotient n / d of two numbers, d > 0, as a fraction in lowest terms
\* (float division, without the rounding of the last bit)
Ratio(n, d) == [num |-> n \div Gcd(n, d), den |-> d \div Gcd(n, d)]

Max(S) == CHOOSE x \in S : \A y \in S : y <= x

Min(S) == CHOOSE x \in S : \A y \in S : x <= y

UpperChars == <<"A","B","C","D","E","F","G","H","I","J","K","L","M",
                "N","O","P","Q","R","S","T","U","V","W","X","Y","Z">>

LowerChars == <<"a","b","c","d","e","f","g","h","i","j","k","l","m",
                "n","o","p","q","r","s","t","u","v","w","x","y","z">>

LowerChar(c) ==
    IF \E i \in 1..26 : UpperChars[i] = c
    THEN LowerChars[CHOOSE i \in 1..26 : UpperChars[i] = c]
    ELSE c

\* str.lower()
PyLower(s) == [i \in 1..Len(s) |-> LowerChar(s[i])]

\* pattern in s  (substring test of str)
Contains(s, pattern) ==
    \E i \in 1..(Len(s) - Len(pattern) + 1) :
        SubSeq(s, i, i + Len(pattern) - 1) = pattern

DigitChars == <<"0","1","2","3","4","5","6","7","8","9">>

\* str(n) for a non-negative int
RECURSIVE Digits(_)
Digits(n) ==
    IF n < 10 THEN <<DigitChars[n + 1]>>
    ELSE Digits(n \div 10) \o <<DigitChars[(n % 10) + 1]>>

-----------------------------------------------------------------------------
(* Instance types and volume types used by the model                       *)

T2Micro == <<"t","2",".","m","i","c","r","o">>
T3Micro == <<"t","3",".","m","i","c","r","o">>
T3Large == <<"t","3",".","l","a","r","g","e">>
M5Large == <<"m","5",".","l","a","r","g","e">>
P3_2xlarge == <<"p","3",".","2","x","l","a","r","g","e">>
P4d_24xlarge == <<"p","4","d",".","2","4","x","l","a","r","g","e">>
G4dnXlarge == <<"g","4","d","n",".","x","l","a","r","g","e">>
P2Xlarge == <<"p","2",".","x","l","a","r","g","e">>
DbT2Micro == <<"d","b",".","t","2",".","m","i","c","r","o">>
DbT3Micro == <<"d","b",".","t","3",".","m","i","c","r","o">>
Gp3 == <<"g","p","3">>
Gp2 == <<"g","p","2">>
Io1 == <<"i","o","1">>
Io2 == <<"i","o","2">>
St1 == <<"s","t","1">>
Sc1 == <<"s","c","1">>
Standard == <<"s","t","a","n","d","a","r","d">>
Glacier == <<"g","l","a","c","i","e","r">>
Application == <<"a","p","p","l","i","c","a","t","i","o","n">>
Network == <<"n","e","t","w","o","r","k">>

-----------------------------------------------------------------------------
(* core/data/cost_estimates.py                                             *)

Standard_LRS == <<"S","t","a","n","d","a","r","d","_","L","R","S">>

PdStandard == <<"p","d","-","s","t","a","n","d","a","r","d">>

Standard_B1s == <<"S","t","a","n","d","a","r","d","_","B","1","s">>

F1Micro == <<"f","1","-","m","i","c","r","o">>

Flat(price) == [kind |-> "flat", price |-> price, items |-> <<>>]

Table(items) == [kind |-> "dict", price |-> 0, items |-> items]

\* The entries of AWS_COST_ESTIMATES the model uses, prices in mills. A
\* size-keyed table keeps the insertion order of the dict literal.
AWS_COST_ESTIMATES ==
    [aws_instance |-> Table(<< <<T2Micro, 8500>>, <<T3Micro, 7590>>,
                               <<T3Large, 60740>>, <<M5Large, 69350>>,
                               <<P3_2xlarge, 2204160>>,
                               <<P4d_24xlarge, 23320800>>,
                               <<G4dnXlarge, 380880>> >>),
     aws_db_instance |-> Table(<< <<DbT2Micro, 12410>>,
                                  <<DbT3Micro, 11690>> >>),
     aws_ebs_volume |-> Table(<< <<Gp3, 80>>, <<Gp2, 100>>, <<Io1, 125>>,
                                 <<Io2, 125>>, <<St1, 45>>, <<Sc1, 15>> >>),
     aws_s3_bucket |-> Table(<< <<Standard, 23>>, <<Glacier, 4>> >>),
     aws_lb |-> Table(<< <<Application, 16430>>, <<Network, 16430>> >>),
     aws_elb |-> Flat(18250),
     aws_nat_gateway |-> Flat(32850),
     aws_lambda_function |-> Flat(200),
     aws_eks_cluster |-> Flat(73000),
     aws_iam_role |-> Flat(0),
     aws_iam_policy |-> Flat(0),
     aws_iam_user |-> Flat(0),
     aws_iam_group |-> Flat(0),
     aws_security_group |-> Flat(0),
     aws_route_table |-> Flat(0)]

\* The managed-disk rates of AZURE_COST_ESTIMATES and the compute-disk
\* rates of GCP_COST_ESTIMATES, per GB and month
AZURE_COST_ESTIMATES ==
    [azurerm_virtual_machine |-> Table(<< <<Standard_B1s, 7590>> >>),
     azurerm_managed_disk |->
        Table(<< <<Standard_LRS, 40>>,
                 <<<<"P","r","e","m","i","u","m","_","L","R","S">>, 135>> >>)]

GCP_COST_ESTIMATES ==
    [google_compute_instance |-> Table(<< <<F1Micro, 3880>> >>),
     google_compute_disk |->
        Table(<< <<PdStandard, 40>>, <<<<"p","d","-","s","s","d">>, 170>> >>)]

AIML_RESOURCE_PATTERNS_gpu_instances ==
    << <<"p","2",".">>, <<"p","3",".">>, <<"p","4",".">>,
       <<"g","3",".">>, <<"g","4",".">>, <<"g","5",".">> >>

COST_WARNING_THRESHOLDS ==
    [low |-> 100000, medium |-> 500000, high |-> 1000000, critical |-> 5000000]

\* A variant that flags every sized instance
is_gpu_instance_AnySize(instance_type) == instance_type # <<>>

is_gpu_instance(instance_type) ==
    IF instance_type = <<>> THEN FALSE
    ELSE \E i \in DOMAIN AIML_RESOURCE_PATTERNS_gpu_instances :
            Contains(PyLower(instance_type),
                     AIML_RESOURCE_PATTERNS_gpu_instances[i])

\* cost_data.get(key, 0.0) on a size-keyed table
TableHas(items, key) == \E i \in DOMAIN items : items[i][1] = key

TableGet(items, key, default) ==
    IF TableHas(items, key)
    THEN items[CHOOSE i \in DOMAIN items : items[i][1] = key][2]
    ELSE default

-----------------------------------------------------------------------------
(* Values loaded from a template (str, int, list, one-key dict, None)      *)

PV(k, s, n, key, items) == [k |-> k, s |-> s, n |-> n, key |-> key, items |-> items]

PStr(s) == PV("str", s, 0, "", <<>>)

PInt(n) == PV("int", <<>>, n, "", <<>>)

\* the one-key dict {key: s}
PDict1(key, s) == PV("dict", s, 0, key, <<>>)

PList(items) == PV("list", <<>>, 0, "", items)

PNone == PV("none", <<>>, 0, "", <<>>)

-----------------------------------------------------------------------------
(* CostAnalyzer: the cost computation engine                               *)

Component(name, monthly_cost) == [name |-> name, monthly_cost |-> monthly_cost]

\* (monthly_cost, cost_components) of the cost functions. cost_components
\* None is the empty sequence (a components dict is never empty); raised
\* is TRUE when the function raised instead of returning.
CostResult(cost, components) ==
    [cost |-> cost, components |-> components, raised |-> FALSE]

CostRaised == [cost |-> 0, components |-> <<>>, raised |-> TRUE]

\* volume_type is the value stored by the extractor: cost_data.get raises
\* TypeError on an unhashable key (dict, list), volume_type.upper() raises
\* AttributeError on any other value that is not a str.
get_ebs_cost_detailed(volume_type, volume_size) ==
    LET cost_data == AWS_COST_ESTIMATES["aws_ebs_volume"].items IN
    IF volume_type.k # "str" THEN CostRaised
    ELSE LET price_per_gb == TableGet(cost_data, volume_type.s, 0)
             monthly_cost == price_per_gb * volume_size
         IN  CostResult(monthly_cost, <<Component("storage", monthly_cost)>>)

get_resource_cost_detailed_RequestsBilled(resource_type, instance_type) ==
    IF resource_type = "aws_s3_bucket"
    THEN CostResult(2300, <<Component("storage", 2300),
                            Component("requests", 400),
                            Component("data_transfer", 0)>>)
    ELSE CostResult(0, <<>>)

get_resource_cost_detailed(resource_type, instance_type) ==
    IF resource_type \notin DOMAIN AWS_COST_ESTIMATES
    THEN CostResult(0, <<>>)
    ELSE
    LET cost_data == AWS_COST_ESTIMATES[resource_type] IN
    IF resource_type = "aws_s3_bucket"
    THEN LET assumed_storage_gb == 100
             storage_rate == TableGet(cost_data.items, Standard, 23)
             storage_cost == storage_rate * assumed_storage_gb
         IN  CostResult(storage_cost,
                        <<Component("storage", storage_cost),
                          Component("requests", 0),
                          Component("data_transfer", 0)>>)
    ELSE IF cost_data.kind = "dict"
    THEN IF Truthy(instance_type)
         THEN LET cost == TableGet(cost_data.items, instance_type, 0)
              IN  CostResult(cost, <<Component("compute", cost)>>)
         ELSE IF TableHas(cost_data.items, Standard)
              THEN CostResult(TableGet(cost_data.items, Standard, 0) * 100, <<>>)
              ELSE IF cost_data.items # <<>>
                   THEN CostResult(cost_data.items[1][2] * 100, <<>>)
                   ELSE CostResult(0, <<>>)
    ELSE CostResult(cost_data.price, <<Component("service", cost_data.price)>>)

determine_cost_category_Above(monthly_cost) ==
    IF monthly_cost > COST_WARNING_THRESHOLDS["critical"] THEN "critical"
    ELSE IF monthly_cost > COST_WARNING_THRESHOLDS["high"] THEN "high"
    ELSE IF monthly_cost > COST_WARNING_THRESHOLDS["medium"] THEN "medium"
    ELSE IF monthly_cost > COST_WARNING_THRESHOLDS["low"] THEN "low"
    ELSE "minimal"

determine_cost_category(monthly_cost) ==
    IF monthly_cost >= COST_WARNING_THRESHOLDS["critical"] THEN "critical"
    ELSE IF monthly_cost >= COST_WARNING_THRESHOLDS["high"] THEN "high"
    ELSE IF monthly_cost >= COST_WARNING_THRESHOLDS["medium"] THEN "medium"
    ELSE IF monthly_cost >= COST_WARNING_THRESHOLDS["low"] THEN "low"
    ELSE "minimal"

free_services ==
    {"AWS::EC2::SecurityGroup", "AWS::IAM::Role", "AWS::IAM::Policy",
     "AWS::IAM::User", "AWS::IAM::Group", "AWS::IAM::InstanceProfile",
     "AWS::EC2::RouteTable", "AWS::EC2::Route",
     "AWS::EC2::SubnetRouteTableAssociation", "AWS::EC2::VPCGatewayAttachment",
     "AWS::CloudWatch::Alarm", "AWS::Logs::LogGroup"}

is_free_aws_service(cf_type) == cf_type \in free_services

\* The free-service test of _calculate_costs: made on cf_type only, which
\* the Terraform extractor never sets.
IsFree(resource) ==
    LET cf_type == Get(resource, "cf_type", "") IN
    IF cf_type # "" THEN is_free_aws_service(cf_type) ELSE FALSE

\* The cost lookup of _calculate_costs for one resource.
ResourceCost(resource) ==
    IF Get(resource, "type", "") = "aws_ebs_volume"
    THEN get_ebs_cost_detailed(Get(resource, "volume_type", PStr(Gp2)),
                               Get(resource, "volume_size", 0))
    ELSE get_resource_cost_detailed(Get(resource, "type", ""),
                                    Get(resource, "instance_type", None))

hourly_cost_Of720(monthly_cost) == Ratio(monthly_cost, 720)

\* The costs per period of _calculate_costs
\* (4.33 weeks, 30 days, 730 hours a month)
weekly_cost(monthly_cost) == Ratio(monthly_cost * 100, 433)

daily_cost(monthly_cost) == Ratio(monthly_cost, 30)

hourly_cost(monthly_cost) == Ratio(monthly_cost, 730)

\* The breakdown is appended only if monthly_cost > 0 or is_free.
Included(monthly_cost, is_free) == monthly_cost > 0 \/ is_free

CostBreakdown(resource, c, is_free) ==
    LET instance_type == Get(resource, "instance_type", None) IN
    [resource_name |-> Get(resource, "name", <<>>),
     resource_type |-> Get(resource, "type", ""),
     instance_type |-> instance_type,
     monthly_cost |-> c.cost,
     weekly_cost |-> weekly_cost(c.cost),
     daily_cost |-> daily_cost(c.cost),
     hourly_cost |-> hourly_cost(c.cost),
     cost_category |-> IF ~is_free THEN determine_cost_category(c.cost)
                       ELSE "free",
     is_gpu |-> is_gpu_instance(IF Truthy(instance_type) THEN instance_type
                                ELSE <<>>),
     cost_components |-> c.components,
     is_free_service |-> is_free]

\* The loop of _calculate_costs: the list of breakdowns, or raised when a
\* cost function raised (nothing in _calculate_costs catches it).
RECURSIVE CostLoop(_, _)
CostLoop(resources, acc) ==
    IF resources = <<>> THEN [list |-> acc, raised |-> FALSE]
    ELSE LET resource == Head(resources)
             is_free == IsFree(resource)
             c == ResourceCost(resource)
         IN  IF c.raised THEN [list |-> acc, raised |-> TRUE]
             ELSE IF Included(c.cost, is_free)
             THEN CostLoop(Tail(resources),
                           Append(acc, CostBreakdown(resource, c, is_free)))
             ELSE CostLoop(Tail(resources), acc)

calculate_costs(resources) == CostLoop(resources, <<>>)

TotalOf(breakdowns) ==
    SeqSum([i \in 1..Len(breakdowns) |-> breakdowns[i].monthly_cost])

-----------------------------------------------------------------------------
(* Terraform text as tokens                                                *)

Tok(t, a, b, n) == [t |-> t, a |-> a, b |-> b, n |-> n]

\* resource "<type>" "<name>"
Hdr(type, name) == Tok("hdr", type, name, 0)

LB == Tok("{", "", <<>>, 0)

RB == Tok("}", "", <<>>, 0)

\* the word that opens a nested block: root_block_device, os_disk, ...
Kw(word) == Tok("kw", word, <<>>, 0)

\* key = "value"
AttrS(key, value) == Tok("attrs", key, value, 0)

\* key = var.<value>
AttrV(key, value) == Tok("attrv", key, value, 0)

\* key = <digits>
AttrN(key, n) == Tok("attrn", key, <<>>, n)

\* [^}]* from position p: the number of tokens up to the next "}"
RECURSIVE Run(_, _)
Run(text, p) ==
    IF p > Len(text) \/ text[p] = RB THEN 0 ELSE 1 + Run(text, p + 1)

IsAt(text, p, tok) == p <= Len(text) /\ text[p] = tok

\* (?:\{[^}]*\}[^}]*)*\}  matched at p: the position after the match, or 0.
\* The star is greedy: one more iteration is tried first, with the longest
\* [^}]* first, and the closing \} only when no iteration leads to a match.
RECURSIVE GroupsThenClose(_, _)
GroupsThenClose(text, p) ==
    LET Inner == IF IsAt(text, p, LB) THEN Run(text, p + 1) ELSE 0
        AfterInner(b) == p + 1 + b
        Ends(b) ==
            IF IsAt(text, p, LB) /\ IsAt(text, AfterInner(b), RB)
            THEN {GroupsThenClose(text, AfterInner(b) + 1 + c) :
                      c \in 0..Run(text, AfterInner(b) + 1)} \ {0}
            ELSE {}
        Good == {b \in 0..Inner : Ends(b) # {}}
        Iterated ==
            IF Good = {} THEN 0
            ELSE LET b == Max(Good)
                     c == Max({c \in 0..Run(text, AfterInner(b) + 1) :
                               GroupsThenClose(text, AfterInner(b) + 1 + c) # 0})
                 IN  GroupsThenClose(text, AfterInner(b) + 1 + c)
    IN  IF Iterated # 0 THEN Iterated
        ELSE IF IsAt(text, p, RB) THEN p + 1
        ELSE 0

\* \{([^}]*(?:\{[^}]*\}[^}]*)*)\}  matched at p (the opening brace): the
\* position after the match, or 0. The first [^}]* is greedy: the longest
\* run from which the rest of the pattern matches is the one taken.
BodyEnd(text, p) ==
    IF ~IsAt(text, p, LB) THEN 0
    ELSE LET Good == {a \in 0..Run(text, p + 1) :
                          GroupsThenClose(text, p + 1 + a) # 0}
         IN  IF Good = {} THEN 0
             ELSE GroupsThenClose(text, p + 1 + Max(Good))

\* resource_pattern matched at position i: the position after the match, or 0
ResourceMatch(text, i) ==
    IF i <= Len(text) /\ text[i].t = "hdr" THEN BodyEnd(text, i + 1) ELSE 0

\* group(3) of the match at i that ends before position e
ResourceBody(text, i, e) == SubSeq(text, i + 2, e - 2)

\* re.search(pattern, resource_body): the patterns of _extract_instance_type
\* in the order of the list; each returns group(1) of its leftmost match,
\* the first of the tokens it matches.
FirstTok(body, matching) ==
    IF matching # {} THEN body[Min(matching)] ELSE Tok("none", "", <<>>, 0)

CachePrefix == <<"c","a","c","h","e",".">>

\* cache\.([^\s"]+) inside one value, ignoring case: the characters after
\* the leftmost "cache.", or <<>> when there is no match
AfterCache(value) ==
    LET at == {i \in 1..(Len(value) - 6) :
                   PyLower(SubSeq(value, i, i + 5)) = CachePrefix}
    IN  IF at = {} THEN <<>> ELSE SubSeq(value, Min(at) + 6, Len(value))

\* "([^"]+)" and var\.([^"\s]+) need a value of at least one character
IsQuoted(tok, key) == tok.t = "attrs" /\ tok.a = key /\ tok.b # <<>>

IsVarRef(tok, key) == tok.t = "attrv" /\ tok.a = key /\ tok.b # <<>>

HasCache(tok) == tok.t \in {"attrs", "attrv"} /\ AfterCache(tok.b) # <<>>

extract_instance_type(resource_body) ==
    LET p1 == {i \in DOMAIN resource_body :
                  IsQuoted(resource_body[i], "instance_type")}
        p2 == {i \in DOMAIN resource_body :
                  IsVarRef(resource_body[i], "instance_type")}
        p3 == {i \in DOMAIN resource_body :
                  IsQuoted(resource_body[i], "db_instance_class")}
        p4 == {i \in DOMAIN resource_body :
                  IsQuoted(resource_body[i], "node_type")}
        p5 == {i \in DOMAIN resource_body : HasCache(resource_body[i])}
    IN  IF p1 # {} THEN FirstTok(resource_body, p1).b
        ELSE IF p2 # {} THEN FirstTok(resource_body, p2).b
        ELSE IF p3 # {} THEN FirstTok(resource_body, p3).b
        ELSE IF p4 # {} THEN FirstTok(resource_body, p4).b
        ELSE IF p5 # {} THEN AfterCache(FirstTok(resource_body, p5).b)
        ELSE None

-----------------------------------------------------------------------------
(* Nested disk and volume blocks of a Terraform resource body              *)

\* <word>\s*\{([^}]+)\}  matched at position i of the body. Tokens are
\* separated by white space, so [^}]+ matches between any two braces.
BlockAt(body, word, i) ==
    /\ i <= Len(body) /\ body[i] = Kw(word)
    /\ IsAt(body, i + 1, LB)
    /\ IsAt(body, i + 2 + Run(body, i + 2), RB)

\* re.finditer: group(1) of the successive non-overlapping matches
RECURSIVE FindBlocks(_, _, _)
FindBlocks(body, word, from) ==
    LET starts == {i \in from..Len(body) : BlockAt(body, word, i)} IN
    IF starts = {} THEN <<>>
    ELSE LET i == Min(starts)
             e == i + 2 + Run(body, i + 2) + 1
         IN  <<SubSeq(body, i + 2, e - 2)>> \o FindBlocks(body, word, e)

\* The attribute names a pattern that is not anchored on the left matches
Suffixed(pattern) ==
    IF pattern = "size" THEN {"size", "volume_size"}
    ELSE IF pattern = "type"
    THEN {"type", "volume_type", "storage_account_type", "instance_type"}
    ELSE {pattern}

\* re.search(r'<pattern>\s*=\s*(\d+)', block_body)
HasInt(block_body, pattern) ==
    \E i \in DOMAIN block_body :
        block_body[i].t = "attrn" /\ block_body[i].a \in Suffixed(pattern)

IntOf(block_body, pattern) ==
    block_body[Min({i \in DOMAIN block_body :
        block_body[i].t = "attrn" /\ block_body[i].a \in Suffixed(pattern)})].n

\* group(1) of re.search(r'<pattern>\s*=\s*"([^"]+)"', block_body), or default
StrOf(block_body, pattern, default) ==
    LET at == {i \in DOMAIN block_body :
                  /\ block_body[i].t = "attrs" /\ block_body[i].b # <<>>
                  /\ block_body[i].a \in Suffixed(pattern)}
    IN  IF at = {} THEN default ELSE block_body[Min(at)].b



EbsVolume(name, volume_size, volume_type) ==
    [type |-> "aws_ebs_volume", name |-> name, instance_type |-> None,
     body |-> <<>>, volume_size |-> volume_size, volume_type |-> volume_type]

ManagedDisk(name, disk_size, storage_type) ==
    [type |-> "azurerm_managed_disk", name |-> name, instance_type |-> None,
     body |-> <<>>, disk_size_gb |-> disk_size, storage_type |-> storage_type]

ComputeDisk(name, disk_size, disk_type) ==
    [type |-> "google_compute_disk", name |-> name, instance_type |-> None,
     body |-> <<>>, disk_size_gb |-> disk_size, disk_type |-> disk_type]

\* The single block found by re.search (suffix names the resource) followed
\* by the blocks found by re.finditer (suffix and enumerate index name it);
\* a block without a size is not appended but still takes its index.
RECURSIVE Cat(_)
Cat(seqs) == IF seqs = <<>> THEN <<>> ELSE Head(seqs) \o Cat(Tail(seqs))

\* IndexedName with the index counted from 1
IndexedName_FromOne(parent_name, suffix, idx) ==
    parent_name \o suffix \o Digits(idx + 1)

\* f"{parent_name}_ebs_{idx}", f"{parent_name}_data_disk_{idx}", ...
IndexedName(parent_name, suffix, idx) ==
    parent_name \o suffix \o Digits(idx)

\* The record appended for a block of the provider's disks: the type
\* attribute of the block, or the provider's default
DiskRecord(provider, name, size, block) ==
    IF provider = "aws"
    THEN EbsVolume(name, size, PStr(StrOf(block, "volume_type", Gp2)))
    ELSE IF provider = "azure"
    THEN ManagedDisk(name, size, StrOf(block, "storage_account_type", Standard_LRS))
    ELSE ComputeDisk(name, size, StrOf(block, "type", PdStandard))

Indexed(blocks, parent_name, suffix, size_key, provider) ==
    Cat([i \in 1..Len(blocks) |->
            IF HasInt(blocks[i], size_key)
            THEN <<DiskRecord(provider, IndexedName(parent_name, suffix, i - 1),
                              IntOf(blocks[i], size_key), blocks[i])>>
            ELSE <<>>])

Single(blocks, parent_name, suffix, size_key, provider) ==
    IF blocks # <<>> /\ HasInt(blocks[1], size_key)
    THEN <<DiskRecord(provider, parent_name \o suffix,
                      IntOf(blocks[1], size_key), blocks[1])>>
    ELSE <<>>

extract_aws_ebs_from_terraform(resource_body, parent_name, resources) ==
    resources
    \o Single(FindBlocks(resource_body, "root_block_device", 1), parent_name,
              <<"_","r","o","o","t","_","v","o","l","u","m","e">>,
              "volume_size", "aws")
    \o Indexed(FindBlocks(resource_body, "ebs_block_device", 1), parent_name,
               <<"_","e","b","s","_">>, "volume_size", "aws")

extract_azure_disks(resource_body, parent_name, resources) ==
    resources
    \o Single(FindBlocks(resource_body, "os_disk", 1), parent_name,
              <<"_","o","s","_","d","i","s","k">>, "disk_size_gb", "azure")
    \o Indexed(FindBlocks(resource_body, "data_disk", 1), parent_name,
               <<"_","d","a","t","a","_","d","i","s","k","_">>,
               "disk_size_gb", "azure")

extract_gcp_disks(resource_body, parent_name, resources) ==
    resources
    \o Single(FindBlocks(resource_body, "boot_disk", 1), parent_name,
              <<"_","b","o","o","t","_","d","i","s","k">>, "size", "gcp")
    \o Indexed(FindBlocks(resource_body, "attached_disk", 1), parent_name,
               <<"_","a","t","t","a","c","h","e","d","_","d","i","s","k","_">>,
               "size", "gcp")

-----------------------------------------------------------------------------
(* _extract_terraform_resources                                            *)

AzureVmTypes ==
    {"azurerm_virtual_machine", "azurerm_linux_virtual_machine",
     "azurerm_windows_virtual_machine"}

\* The sub-resources appended after the record of one declaration
WithSubResources(resource_type, resource_body, resource_name, resources) ==
    LET r1 == IF resource_type \in AzureVmTypes
              THEN extract_azure_disks(resource_body, resource_name, resources)
              ELSE resources
        r2 == IF resource_type = "google_compute_instance"
              THEN extract_gcp_disks(resource_body, resource_name, r1)
              ELSE r1
    IN  IF resource_type = "aws_instance"
        THEN extract_aws_ebs_from_terraform(resource_body, resource_name, r2)
        ELSE r2

\* The loop over re.finditer(resource_pattern, content)
RECURSIVE FindResources(_, _, _)
FindResources(content, from, resources) ==
    LET starts == {i \in from..Len(content) : ResourceMatch(content, i) # 0} IN
    IF starts = {} THEN resources
    ELSE LET i == Min(starts)
             e == ResourceMatch(content, i)
             resource_type == content[i].a
             resource_name == content[i].b
             resource_body == ResourceBody(content, i, e)
             record == [type |-> resource_type, name |-> resource_name,
                        instance_type |-> extract_instance_type(resource_body),
                        body |-> resource_body]
         IN  FindResources(content, e,
                 WithSubResources(resource_type, resource_body, resource_name,
                                  Append(resources, record)))

extract_terraform_resources(content) == FindResources(content, 1, <<>>)

-----------------------------------------------------------------------------
(* The calls                                                               *)

\* No call yet on the input
NoCall == [op |-> "", ret |-> <<>>, raised |-> FALSE]

Start(input) ==
    /\ pc = "ready" /\ op = "" /\ arg = input /\ ret = <<>> /\ raised = FALSE
    /\ cost_breakdowns = <<>> /\ total_monthly_cost = 0
    /\ yaml_multi_constructors = {}
    /\ previous = NoCall
    /\ cache = <<>> /\ time = 0 /\ api = <<>> /\ logger = <<>>
    /\ results = <<>>

\* A call that returns value and leaves the analyzer as it was
Return(name, value) ==
    /\ pc' = "done" /\ op' = name /\ ret' = value /\ raised' = FALSE
    /\ UNCHANGED <<arg, cost_breakdowns, total_monthly_cost,
                   yaml_multi_constructors, previous, env>>

\* The end of analyze_terraform and analyze_cloudformation: the call of
\* _calculate_costs, which stores and returns the breakdowns, or raises
\* before it stores anything.
ReturnCosts(name, resources) ==
    LET costs == calculate_costs(resources) IN
    /\ pc' = "done" /\ op' = name
    /\ UNCHANGED arg
    /\ IF costs.raised
       THEN /\ raised' = TRUE /\ ret' = <<>>
            /\ UNCHANGED <<cost_breakdowns, total_monthly_cost>>
       ELSE /\ raised' = FALSE /\ ret' = costs.list
            /\ cost_breakdowns' = costs.list
            /\ total_monthly_cost' = TotalOf(costs.list)

-----------------------------------------------------------------------------
(* Terraform: texts of at most MaxTextLen tokens                           *)

MaxTextLen == 6

NameA == <<"a">>

TfAlphabet ==
    {Hdr("aws_instance", NameA), LB, RB, Kw("root_block_device"),
     AttrN("volume_size", 100), AttrS("instance_type", T3Large)}

TfTexts(max_len) == UNION {[1..n -> TfAlphabet] : n \in 0..max_len}

InitTf == \E text \in TfTexts(MaxTextLen) : Start(text)

ExtractTerraformResources ==
    /\ pc = "ready"
    /\ Return("extract_terraform_resources", extract_terraform_resources(arg))

AnalyzeTerraform ==
    /\ pc = "ready"
    /\ ReturnCosts("analyze_terraform", extract_terraform_resources(arg))
    /\ UNCHANGED <<yaml_multi_constructors, previous, env>>

NextTf == ExtractTerraformResources \/ AnalyzeTerraform

SpecTf == InitTf /\ [][NextTf]_vars

-----------------------------------------------------------------------------
(* Nested blocks: resource bodies of at most MaxBlocks items               *)

MaxBlocks == 3

\* The block keywords and attribute names of each provider
Words ==
    [aws |-> [single |-> "root_block_device", multi |-> "ebs_block_device",
              size |-> "volume_size", type |-> "volume_type"],
     azure |-> [single |-> "os_disk", multi |-> "data_disk",
                size |-> "disk_size_gb", type |-> "storage_account_type"],
     gcp |-> [single |-> "boot_disk", multi |-> "attached_disk",
              size |-> "size", type |-> "type"]]

Providers == {"aws", "azure", "gcp"}

\* An item of a body: a closed block <kind> { [size = n] [type = "io1"] },
\* or a plain attribute (kind "attr"). size 0 stands for no size attribute.
Item(kind, size, typed) == [kind |-> kind, size |-> size, typed |-> typed]

Items ==
    {Item(k, sz[1], sz[2]) :
        k \in {"single", "multi"},
        sz \in {<<0, FALSE>>, <<0, TRUE>>, <<8, FALSE>>, <<100, TRUE>>}}
    \cup {Item("attr", 0, FALSE)}

ItemTokens(w, item) ==
    IF item.kind = "attr" THEN <<AttrS("ami", NameA)>>
    ELSE <<Kw(w[item.kind]), LB>>
         \o (IF item.size > 0 THEN <<AttrN(w.size, item.size)>> ELSE <<>>)
         \o (IF item.typed THEN <<AttrS(w.type, Io1)>> ELSE <<>>)
         \o <<RB>>

BodyOf(provider, items) ==
    Cat([i \in 1..Len(items) |-> ItemTokens(Words[provider], items[i])])

ItemLists(max_blocks) == UNION {[1..n -> Items] : n \in 0..max_blocks}

NameP == <<"p">>

InitSub ==
    \E provider \in Providers, items \in ItemLists(MaxBlocks) :
        Start([provider |-> provider, items |-> items,
               body |-> BodyOf(provider, items), parent_name |-> NameP])

ExtractAwsEbsFromTerraform ==
    /\ pc = "ready"
    /\ Return("extract_aws_ebs_from_terraform",
              extract_aws_ebs_from_terraform(arg.body, arg.parent_name, <<>>))

ExtractAzureDisks ==
    /\ pc = "ready"
    /\ Return("extract_azure_disks",
              extract_azure_disks(arg.body, arg.parent_name, <<>>))

ExtractGcpDisks ==
    /\ pc = "ready"
    /\ Return("extract_gcp_disks",
              extract_gcp_disks(arg.body, arg.parent_name, <<>>))

NextSub == ExtractAwsEbsFromTerraform \/ ExtractAzureDisks \/ ExtractGcpDisks

SpecSub == InitSub /\ [][NextSub]_vars

-----------------------------------------------------------------------------
(* CloudFormation resource types                                           *)

cf_type_mapping ==
    ("AWS::EC2::Instance" :> "aws_instance")
    @@ ("AWS::RDS::DBInstance" :> "aws_db_instance")
    @@ ("AWS::ElasticLoadBalancingV2::LoadBalancer" :> "aws_lb")
    @@ ("AWS::ElasticLoadBalancing::LoadBalancer" :> "aws_elb")
    @@ ("AWS::EC2::NatGateway" :> "aws_nat_gateway")
    @@ ("AWS::EC2::Volume" :> "aws_ebs_volume")
    @@ ("AWS::S3::Bucket" :> "aws_s3_bucket")
    @@ ("AWS::VPN::Connection" :> "aws_vpn_connection")
    @@ ("AWS::ElastiCache::CacheCluster" :> "aws_elasticache_cluster")
    @@ ("AWS::Lambda::Function" :> "aws_lambda_function")
    @@ ("AWS::EKS::Cluster" :> "aws_eks_cluster")
    @@ ("AWS::SageMaker::NotebookInstance" :> "aws_sagemaker_notebook_instance")
    @@ ("AWS::EC2::SecurityGroup" :> "aws_security_group")
    @@ ("AWS::IAM::Role" :> "aws_iam_role")
    @@ ("AWS::IAM::Policy" :> "aws_iam_policy")
    @@ ("AWS::IAM::User" :> "aws_iam_user")
    @@ ("AWS::IAM::Group" :> "aws_iam_group")

\* cf_type.lower() of the types the model uses that have no mapping
LowerType ==
    ("AWS::IAM::InstanceProfile" :> "aws::iam::instanceprofile")
    @@ ("AWS::EC2::RouteTable" :> "aws::ec2::routetable")
    @@ ("AWS::EC2::Route" :> "aws::ec2::route")
    @@ ("AWS::EC2::SubnetRouteTableAssociation" :> "aws::ec2::subnetroutetableassociation")
    @@ ("AWS::EC2::VPCGatewayAttachment" :> "aws::ec2::vpcgatewayattachment")
    @@ ("AWS::CloudWatch::Alarm" :> "aws::cloudwatch::alarm")
    @@ ("AWS::Logs::LogGroup" :> "aws::logs::loggroup")
    @@ ("AWS::AutoScaling::LaunchConfiguration" :> "aws::autoscaling::launchconfiguration")
    @@ ("AWS::EC2::LaunchTemplate" :> "aws::ec2::launchtemplate")
    @@ ("AWS::Batch::ComputeEnvironment" :> "aws::batch::computeenvironment")
    @@ ("AWS::KMS::Key" :> "aws::kms::key")
    @@ ("aws_instance" :> "aws_instance")
    @@ ("aws_kms_key" :> "aws_kms_key")
    @@ ("" :> "")

convert_cf_type_to_internal(cf_type) ==
    IF cf_type \in DOMAIN cf_type_mapping THEN cf_type_mapping[cf_type]
    ELSE LowerType[cf_type]

-----------------------------------------------------------------------------
(* core/data/resource_mapper.py: ResourceMapper                            *)

\* An Optional[str]
Some(value) == [none |-> FALSE, value |-> value]

NoStr == [none |-> TRUE, value |-> ""]

Frameworks == {"terraform", "cloudformation", "arm", "bicep"}

\* framework.lower() of the framework names the model uses
FrameworkLower ==
    [f \in Frameworks |-> f]
    @@ ("Terraform" :> "terraform") @@ ("CloudFormation" :> "cloudformation")
    @@ ("pulumi" :> "pulumi")

\* The index of one framework: the canonical name by the type that the
\* entries of the mapping file give for the framework
build_indexes(mappings, framework) ==
    LET entries == {m \in mappings : framework \in DOMAIN m} IN
    [t \in {m[framework] : m \in entries} |->
        (CHOOSE m \in entries : m[framework] = t).canonical_name]

get_canonical_name(mappings, resource_type, framework) ==
    LET lowered == FrameworkLower[framework] IN
    IF lowered \notin Frameworks THEN NoStr
    ELSE LET index == build_indexes(mappings, lowered) IN
         IF resource_type \in DOMAIN index THEN Some(index[resource_type])
         ELSE NoStr

\* resource_mapping.json: not found (no mappings), or with the entry of
\* the examples of get_canonical_name and an entry of the ARM dialects
MappingFiles ==
    LET ec2_instance == [canonical_name |-> "ec2_instance",
                         terraform |-> "aws_instance",
                         cloudformation |-> "AWS::EC2::Instance"]
        vm == [canonical_name |-> "virtual_machine",
               terraform |-> "azurerm_virtual_machine",
               arm |-> "Microsoft.Compute/virtualMachines",
               bicep |-> "Microsoft.Compute/virtualMachines"]
    IN  {{}, {ec2_instance}, {ec2_instance, vm}}

DialectTypes ==
    {"aws_instance", "aws_kms_key", "AWS::EC2::Instance", "AWS::KMS::Key",
     "AWS::Logs::LogGroup", "AWS::RDS::DBInstance"}

InitCanon ==
    \E mappings \in MappingFiles, resource_type \in DialectTypes,
       framework \in DOMAIN FrameworkLower :
        Start([mappings |-> mappings, resource_type |-> resource_type,
               framework |-> framework])

GetCanonicalName ==
    /\ pc = "ready"
    /\ Return("get_canonical_name",
              get_canonical_name(arg.mappings, arg.resource_type, arg.framework))

ConvertCfTypeToInternal ==
    /\ pc = "ready"
    /\ Return("convert_cf_type_to_internal",
              Some(convert_cf_type_to_internal(arg.resource_type)))

NextCanon == GetCanonicalName \/ ConvertCfTypeToInternal

SpecCanon == InitCanon /\ [][NextCanon]_vars

-----------------------------------------------------------------------------
(* Cost computation: lists of at most MaxCostResources resource records    *)

MaxCostResources == 2

SizeAttributes == {None, T3Large, DbT3Micro, P2Xlarge}

\* The records of the Terraform extractor (no cf_type) and of the
\* CloudFormation extractor (cf_type set), without the fields that
\* _calculate_costs does not read; the name is given by the position.
TfRecords ==
    {[type |-> t, instance_type |-> it] :
        t \in {"aws_instance", "aws_db_instance", "aws_nat_gateway",
               "aws_s3_bucket", "aws_iam_role", "aws_sagemaker_endpoint"},
        it \in SizeAttributes}

CfRecords ==
    {[type |-> convert_cf_type_to_internal(t), instance_type |-> it,
      cf_type |-> t] :
        t \in {"AWS::EC2::Instance", "AWS::RDS::DBInstance",
               "AWS::IAM::Role", "AWS::Logs::LogGroup"},
        it \in {None, T3Large}}

\* Synthetic volumes: 100 GB of gp3, of a type without a rate and of a
\* type that is an unresolved Ref, and gp2 volumes whose cost is next to
\* and on the thresholds of the cost categories
VolumeRecords ==
    {[type |-> "aws_ebs_volume", instance_type |-> None,
      volume_size |-> 100, volume_type |-> vt] :
        vt \in {PStr(Gp3), PStr(Standard), PDict1("Ref", <<"V">>)}}
    \cup
    {[type |-> "aws_ebs_volume", instance_type |-> None,
      volume_size |-> size, volume_type |-> PStr(Gp2)] :
        size \in {999, 1000, 5000, 10000, 50000}}

\* Synthetic disks of the Azure and GCP extractors
DiskRecords ==
    {[type |-> "azurerm_managed_disk", instance_type |-> None,
      disk_size_gb |-> 100, storage_type |-> Standard_LRS],
     [type |-> "google_compute_disk", instance_type |-> None,
      disk_size_gb |-> 100, disk_type |-> PdStandard]}

CostRecords == TfRecords \cup CfRecords \cup VolumeRecords \cup DiskRecords

PositionNames == <<NameA, <<"b">>, <<"c">>, <<"d">>, <<"e">>>>

Named(records) ==
    [i \in 1..Len(records) |-> [name |-> PositionNames[i]] @@ records[i]]

\* The lists of at most MaxCostResources records, named by position
InitCost ==
    \E n \in 0..MaxCostResources :
        \E records \in [1..n -> CostRecords] : Start(Named(records))

CalculateCosts ==
    /\ pc = "ready"
    /\ ReturnCosts("calculate_costs", arg)
    /\ UNCHANGED <<yaml_multi_constructors, previous, env>>

\* _get_resource_cost_detailed on the type and size of one of the records
GetResourceCostDetailed ==
    /\ pc = "ready"
    /\ \E i \in DOMAIN arg :
          Return("get_resource_cost_detailed",
                 [resource_type |-> arg[i].type,
                  instance_type |-> arg[i].instance_type]
                 @@ get_resource_cost_detailed(arg[i].type, arg[i].instance_type))

NextCost == CalculateCosts \/ GetResourceCostDetailed

SpecCost == InitCost /\ [][NextCost]_vars

-----------------------------------------------------------------------------
(* CloudFormation: YAML nodes and the values they load as                  *)

\* A node of the YAML document at a place where the extractor reads a
\* value: a scalar, a sequence of plain strings, or a one-entry mapping
\* {key: text}. tag is the suffix of a "!" tag ("" when the node has none);
\* isint marks a plain scalar that resolves to the int n.
Node(kind, tag, text, isint, n, key, items) ==
    [kind |-> kind, tag |-> tag, text |-> text, isint |-> isint, n |-> n,
     key |-> key, items |-> items]

NoNode == Node("absent", "", <<>>, FALSE, 0, "", <<>>)

StrNode(tag, text) == Node("scalar", tag, text, FALSE, 0, "", <<>>)

IntNode(n) == Node("scalar", "", Digits(n), TRUE, n, "", <<>>)

NullNode == Node("null", "", <<>>, FALSE, 0, "", <<>>)

SeqNode(tag, items) == Node("seq", tag, <<>>, FALSE, 0, "", items)

MapNode(tag, key, text) == Node("map", tag, text, FALSE, 0, key, <<>>)

\* the key is not in the dict
Absent == PV("absent", <<>>, 0, "", <<>>)

IntrinsicTags == {"Ref", "Sub", "GetAtt", "Join", "Select"}

\* cfn_constructor(loader, tag_suffix, node), registered for every tag
\* that starts with "!"
cfn_constructor(tag_suffix, node) ==
    IF node.kind = "scalar"
    THEN IF tag_suffix \in IntrinsicTags THEN PDict1(tag_suffix, node.text)
         ELSE PStr(node.text)
    ELSE IF node.kind = "seq" THEN PList(node.items)
    ELSE IF node.kind = "map" THEN PDict1(node.key, node.text)
    ELSE PNone

\* The value yaml.safe_load constructs for a node
Construct(node) ==
    IF node.kind = "absent" THEN Absent
    ELSE IF node.tag # "" THEN cfn_constructor(node.tag, node)
    ELSE IF node.kind = "scalar"
    THEN IF node.isint THEN PInt(node.n) ELSE PStr(node.text)
    ELSE IF node.kind = "seq" THEN PList(node.items)
    ELSE IF node.kind = "map" THEN PDict1(node.key, node.text)
    ELSE PNone

\* The Ebs entry of a block device mapping: a mapping with VolumeSize and
\* VolumeType (kind "map"), any other node (kind "node"), or no Ebs key
EbsMap(size, type) ==
    [kind |-> "map", VolumeSize |-> size, VolumeType |-> type, node |-> NoNode]

EbsNode(node) ==
    [kind |-> "node", VolumeSize |-> NoNode, VolumeType |-> NoNode, node |-> node]

NoEbs == [kind |-> "absent", VolumeSize |-> NoNode, VolumeType |-> NoNode,
          node |-> NoNode]

\* BlockDeviceMappings: a list of mappings each with or without Ebs (kind
\* "list"), any other node (kind "node"), or not given
BdmList(entries) == [kind |-> "list", entries |-> entries, node |-> NoNode]

BdmNode(node) == [kind |-> "node", entries |-> <<>>, node |-> node]

NoBdm == [kind |-> "absent", entries |-> <<>>, node |-> NoNode]

\* LaunchTemplateData: a mapping with BlockDeviceMappings, another node, or
\* not given
LtdMap(bdm) == [kind |-> "map", BlockDeviceMappings |-> bdm, node |-> NoNode]

LtdNode(node) == [kind |-> "node", BlockDeviceMappings |-> NoBdm, node |-> node]

NoLtd == [kind |-> "absent", BlockDeviceMappings |-> NoBdm, node |-> NoNode]

instance_type_keys == <<"InstanceType", "DBInstanceClass", "NodeType", "CacheNodeType">>

\* Properties: a mapping (kind "map"), null (kind "none") or not given
Props(kind, InstanceType, DBInstanceClass, NodeType, CacheNodeType, bdm, ltd, other) ==
    [kind |-> kind, InstanceType |-> InstanceType,
     DBInstanceClass |-> DBInstanceClass, NodeType |-> NodeType,
     CacheNodeType |-> CacheNodeType, BlockDeviceMappings |-> bdm,
     LaunchTemplateData |-> ltd, Other |-> other]

\* The loaded form: every node replaced by the value it constructs
LoadEbs(ebs) ==
    [kind |-> ebs.kind, VolumeSize |-> Construct(ebs.VolumeSize),
     VolumeType |-> Construct(ebs.VolumeType), node |-> Construct(ebs.node)]

LoadBdm(bdm) ==
    [kind |-> bdm.kind,
     entries |-> [i \in 1..Len(bdm.entries) |-> LoadEbs(bdm.entries[i])],
     node |-> Construct(bdm.node)]

LoadProps(p) ==
    [kind |-> p.kind,
     InstanceType |-> Construct(p.InstanceType),
     DBInstanceClass |-> Construct(p.DBInstanceClass),
     NodeType |-> Construct(p.NodeType),
     CacheNodeType |-> Construct(p.CacheNodeType),
     BlockDeviceMappings |-> LoadBdm(p.BlockDeviceMappings),
     LaunchTemplateData |->
         [kind |-> p.LaunchTemplateData.kind,
          BlockDeviceMappings |-> LoadBdm(p.LaunchTemplateData.BlockDeviceMappings),
          node |-> Construct(p.LaunchTemplateData.node)],
     Other |-> Construct(p.Other)]

\* resource_data.get("Properties", {})
EmptyProps ==
    [kind |-> "map", InstanceType |-> Absent, DBInstanceClass |-> Absent,
     NodeType |-> Absent, CacheNodeType |-> Absent,
     BlockDeviceMappings |-> LoadBdm(NoBdm),
     LaunchTemplateData |-> [kind |-> "absent",
                             BlockDeviceMappings |-> LoadBdm(NoBdm),
                             node |-> Absent],
     Other |-> Absent]

-----------------------------------------------------------------------------
(* CloudFormation: size resolution and resource extraction                 *)

\* repr of a list of str (no quote characters in the items)
RECURSIVE ListItems(_)
ListItems(items) ==
    IF items = <<>> THEN <<>>
    ELSE <<"'">> \o Head(items) \o <<"'">>
         \o (IF Len(items) > 1 THEN <<",", " ">> ELSE <<>>)
         \o ListItems(Tail(items))

\* str(value) of a loaded value that is not a dict
PyStr(value) ==
    IF value.k = "str" THEN value.s
    ELSE IF value.k = "int" THEN Digits(value.n)
    ELSE IF value.k = "list" THEN <<"[">> \o ListItems(value.items) \o <<"]">>
    ELSE <<"N", "o", "n", "e">>

\* One entry of the template's Parameters mapping: the parameter's name
\* and its configuration mapping, with or without a Default
Parameter(name, has_default, default) ==
    [name |-> name, has_default |-> has_default, Default |-> default]

Declared(parameters, param_name) ==
    \E i \in DOMAIN parameters : parameters[i].name = param_name

ParamConfig(parameters, param_name) ==
    parameters[CHOOSE i \in DOMAIN parameters : parameters[i].name = param_name]

\* value is a Ref to a declared parameter that has a Default
Resolves(value, parameters) ==
    /\ value.k = "dict" /\ value.key = "Ref"
    /\ Declared(parameters, value.s)
    /\ ParamConfig(parameters, value.s).has_default

\* The loop of _extract_cf_instance_type from the key at position i on
RECURSIVE InstanceTypeFrom(_, _, _)
InstanceTypeFrom(i, properties, parameters) ==
    IF i > Len(instance_type_keys) THEN None
    ELSE LET value == properties[instance_type_keys[i]] IN
         IF value.k = "absent"
         THEN InstanceTypeFrom(i + 1, properties, parameters)
         ELSE IF value.k = "dict"
         THEN IF Resolves(value, parameters)
              THEN PyStr(ParamConfig(parameters, value.s).Default)
              ELSE InstanceTypeFrom(i + 1, properties, parameters)
         ELSE PyStr(value)

extract_cf_instance_type_NoContinue(properties, parameters) ==
    LET present == {i \in DOMAIN instance_type_keys :
                       properties[instance_type_keys[i]].k # "absent"}
        value == properties[instance_type_keys[Min(present)]]
    IN  IF present = {} THEN None
        ELSE IF value.k = "dict"
        THEN IF Resolves(value, parameters)
             THEN PyStr(ParamConfig(parameters, value.s).Default)
             ELSE None
        ELSE PyStr(value)

extract_cf_instance_type(properties, parameters) ==
    InstanceTypeFrom(1, properties, parameters)

\* What a try body has done when it ends: the records appended so far and
\* whether it ended by raising
Outcome(records, ended_raising) ==
    [records |-> records, raised |-> ended_raising]

CfResource(internal_type, resource_name, instance_type, properties, resource_type) ==
    [type |-> internal_type, name |-> resource_name,
     instance_type |-> instance_type, properties |-> properties,
     cf_type |-> resource_type]

CfVolume(resource_name, idx, volume_size, volume_type) ==
    [type |-> "aws_ebs_volume",
     name |-> resource_name \o <<"_", "e", "b", "s", "_">> \o Digits(idx),
     instance_type |-> None,
     properties |-> [VolumeSize |-> volume_size, VolumeType |-> volume_type],
     cf_type |-> "AWS::EC2::Volume",
     volume_size |-> volume_size, volume_type |-> volume_type]

resources_with_block_devices ==
    {"AWS::EC2::Instance", "AWS::AutoScaling::LaunchConfiguration",
     "AWS::EC2::LaunchTemplate", "AWS::Batch::ComputeEnvironment"}

\* ebs_props.get(...) of a value that is not a mapping raises
\* AttributeError, and so does launch_template_data.get(...)
HasGet(value) == value.k = "dict"

\* volume_size > 0 raises TypeError unless volume_size is a number
Comparable(volume_size) == volume_size.k = "int"

\* The body of "for idx, mapping in enumerate(block_devices)" for the
\* entries from position i on; idx = i - 1
RECURSIVE ScanMappings(_, _, _)
ScanMappings(i, entries, resource_name) ==
    IF i > Len(entries) THEN Outcome(<<>>, FALSE)
    ELSE
    LET ebs == entries[i]
        rest == ScanMappings(i + 1, entries, resource_name)
        volume_size == IF ebs.VolumeSize.k = "absent" THEN PInt(0)
                       ELSE ebs.VolumeSize
        volume_type == IF ebs.VolumeType.k = "absent" THEN PStr(Gp2)
                       ELSE ebs.VolumeType
    IN  IF ebs.kind = "absent" THEN rest
        ELSE IF ebs.kind = "node"
        THEN IF HasGet(ebs.node) THEN rest ELSE Outcome(<<>>, TRUE)
        ELSE IF ~Comparable(volume_size) THEN Outcome(<<>>, TRUE)
        ELSE IF volume_size.n > 0
        THEN Outcome(<<CfVolume(resource_name, i - 1, volume_size.n, volume_type)>>
                     \o rest.records, rest.raised)
        ELSE rest

\* The loop over a BlockDeviceMappings value that is not a list of
\* mappings: iterating a str or the keys of a dict gives str items, and
\* "Ebs" in item is a substring test followed by item["Ebs"], which raises;
\* iterating an int or None raises.
ScanNode(value) ==
    LET Ebs == <<"E", "b", "s">> IN
    IF value.k \in {"int", "none"} THEN Outcome(<<>>, TRUE)
    ELSE IF value.k = "list"
    THEN Outcome(<<>>, \E i \in DOMAIN value.items : Contains(value.items[i], Ebs))
    ELSE Outcome(<<>>, FALSE)

ScanBlockDevices(block_devices, resource_name) ==
    IF block_devices.kind = "absent" THEN Outcome(<<>>, FALSE)
    ELSE IF block_devices.kind = "node" THEN ScanNode(block_devices.node)
    ELSE ScanMappings(1, block_devices.entries, resource_name)

\* A resource entry of the Resources mapping: a mapping with Type ("" when
\* not given) and Properties (kind "map"), or any other value
Entry(kind, type, properties) ==
    [kind |-> kind, Type |-> type, Properties |-> properties]

\* One iteration of "for resource_name, resource_data in cf_resources.items()"
ExtractEntry(resource_name, resource_data, parameters) ==
    IF resource_data.kind # "map" THEN Outcome(<<>>, TRUE)
    ELSE
    LET resource_type == resource_data.Type
        properties == IF resource_data.Properties.kind = "absent" THEN EmptyProps
                      ELSE LoadProps(resource_data.Properties)
    IN
    IF properties.kind = "none" THEN Outcome(<<>>, TRUE)
    ELSE
    LET internal_type == convert_cf_type_to_internal(resource_type)
        instance_type == extract_cf_instance_type(properties, parameters)
        record == CfResource(internal_type, resource_name, instance_type,
                             properties, resource_type)
        launch_template_data == properties.LaunchTemplateData
        scan ==
            IF resource_type = "AWS::EC2::LaunchTemplate"
            THEN IF launch_template_data.kind = "absent" THEN Outcome(<<>>, FALSE)
                 ELSE IF launch_template_data.kind = "node"
                 THEN Outcome(<<>>, ~HasGet(launch_template_data.node))
                 ELSE ScanBlockDevices(launch_template_data.BlockDeviceMappings,
                                       resource_name)
            ELSE ScanBlockDevices(properties.BlockDeviceMappings, resource_name)
    IN  IF resource_type \in resources_with_block_devices
        THEN Outcome(<<record>> \o scan.records, scan.raised)
        ELSE Outcome(<<record>>, FALSE)

\* The loop over cf_resources.items() from position i on: an iteration
\* that raises ends the loop
RECURSIVE ExtractEntries(_, _, _)
ExtractEntries(i, cf_resources, parameters) ==
    IF i > Len(cf_resources) THEN Outcome(<<>>, FALSE)
    ELSE LET this == ExtractEntry(cf_resources[i].name, cf_resources[i].data,
                                  parameters)
             rest == ExtractEntries(i + 1, cf_resources, parameters)
         IN  IF this.raised THEN this
             ELSE Outcome(this.records \o rest.records, rest.raised)

-----------------------------------------------------------------------------
(* CloudFormation: the template text and the two entry points              *)

\* A template text, given by what the parsers make of it: whether
\* yaml.safe_load and json.loads succeed, the kind of the document's top
\* value, and for a mapping its Parameters and Resources. Parameters holds
\* the declared parameters (kind "map"), is null (kind "none") or is not
\* given; Resources holds the entries in document order, likewise.
Content(yaml, json, top, parameters, resources) ==
    [yaml |-> yaml, json |-> json, top |-> top, Parameters |-> parameters,
     Resources |-> resources]

Section(kind, entries) == [kind |-> kind, entries |-> entries]

NoSection == Section("absent", <<>>)

\* yaml.safe_load(content), with json.loads(content) as the fallback: TRUE
\* when one of them returns the document
Loads(content) == content.yaml = "ok" \/ content.json = "ok"

\* The try block of analyze_cloudformation: the parameters it passes on.
\* template.get raises when the document is not a mapping, and the bare
\* except turns every failure into {}; a null Parameters is passed on as
\* None, which the extractor replaces by {}.
TemplateParameters(content) ==
    IF content.yaml = "ok" /\ content.top = "map" /\ content.Parameters.kind = "map"
    THEN content.Parameters.entries
    ELSE <<>>

\* The try body of _extract_cloudformation_resources
ExtractBody(content, parameters) ==
    IF ~Loads(content) THEN Outcome(<<>>, TRUE)
    ELSE IF content.top # "map" THEN Outcome(<<>>, TRUE)
    ELSE IF content.Resources.kind = "absent" THEN Outcome(<<>>, FALSE)
    ELSE IF content.Resources.kind = "none" THEN Outcome(<<>>, TRUE)
    ELSE ExtractEntries(1, content.Resources.entries, parameters)

\* "except Exception as e: pass" followed by "return resources": the
\* records appended before the exception are returned
ExceptPass_Reraise(outcome) ==
    [resources |-> outcome.records, raised |-> outcome.raised]

ExceptPass(outcome) == [resources |-> outcome.records, raised |-> FALSE]

extract_cloudformation_resources(content, parameters) ==
    ExceptPass(ExtractBody(content, parameters))

\* yaml.SafeLoader.add_multi_constructor('!', cfn_constructor): the entry
\* for the tag prefix is set in the table of the SafeLoader class, which
\* every yaml.safe_load of the process reads
add_multi_constructor(multi_constructors) == multi_constructors \cup {"!"}

-----------------------------------------------------------------------------
(* CloudFormation: templates of at most MaxResources resource entries      *)

MaxResources == 2

ParamP == <<"P">>

ParamQ == <<"Q">>

ParamR == <<"R">>

ParamN == <<"N">>

\* P has a Default, Q is declared without one, N has the number 5 as its
\* Default, R is not declared
DeclaredParameters ==
    <<Parameter(ParamP, TRUE, PStr(T3Micro)), Parameter(ParamQ, FALSE, PNone),
      Parameter(ParamN, TRUE, PInt(5))>>

Ref(param_name) == StrNode("Ref", param_name)

Vol100Gp3 == EbsMap(IntNode(100), StrNode("", Gp3))

Vol50 == EbsMap(IntNode(50), NoNode)

VolZero == EbsMap(IntNode(0), StrNode("", Gp3))

VolUnsized == EbsMap(NoNode, StrNode("", Gp3))

VolSizeRef == EbsMap(Ref(<<"V">>), StrNode("", Gp3))

VolSizeStr == EbsMap(StrNode("", <<"8">>), StrNode("", Gp3))

VolTypeRef == EbsMap(IntNode(100), Ref(<<"T">>))

VolIo9 == EbsMap(IntNode(100), StrNode("", <<"i", "o", "9">>))

BlockDeviceVariants ==
    {NoBdm, BdmNode(Ref(<<"X">>)), BdmNode(NullNode),
     BdmList(<<Vol100Gp3>>), BdmList(<<Vol100Gp3, Vol50>>),
     BdmList(<<NoEbs, Vol50>>), BdmList(<<VolUnsized, Vol100Gp3>>),
     BdmList(<<VolZero, Vol100Gp3>>),
     BdmList(<<VolSizeRef, Vol100Gp3>>), BdmList(<<Vol100Gp3, VolSizeRef>>),
     BdmList(<<VolSizeStr>>), BdmList(<<VolTypeRef>>), BdmList(<<VolIo9>>),
     BdmList(<<EbsNode(Ref(<<"E">>)), Vol50>>),
     BdmList(<<EbsNode(StrNode("", <<"e">>)), Vol50>>)}

Instance(size, bdm) ==
    Entry("map", "AWS::EC2::Instance",
          Props("map", size, NoNode, NoNode, NoNode, bdm, NoLtd, NoNode))

GetAttArn == SeqNode("GetAtt", <<<<"r">>, <<"A", "r", "n">>>>)

SubName == StrNode("Sub", <<"$", "{", "N", "}">>)

CfEntries ==
    {Instance(StrNode("", T3Large), bdm) : bdm \in BlockDeviceVariants}
    \cup
    {Instance(Ref(ParamP), NoBdm),
     Instance(MapNode("", "Ref", ParamR), BdmList(<<Vol100Gp3>>)),
     Instance(NoNode, NoBdm),
     Entry("map", "AWS::EC2::LaunchTemplate",
           Props("map", NoNode, NoNode, NoNode, NoNode, BdmList(<<Vol50>>),
                 LtdMap(BdmList(<<NoEbs, Vol100Gp3>>)), NoNode)),
     Entry("map", "AWS::EC2::LaunchTemplate",
           Props("map", NoNode, NoNode, NoNode, NoNode, BdmList(<<Vol50>>),
                 LtdNode(StrNode("", <<"l">>)), NoNode)),
     Entry("map", "AWS::AutoScaling::LaunchConfiguration",
           Props("map", Ref(ParamQ), NoNode, NoNode, NoNode,
                 BdmList(<<Vol100Gp3>>), NoLtd, SubName)),
     Entry("map", "AWS::RDS::DBInstance",
           Props("map", NoNode, StrNode("", DbT3Micro), NoNode, NoNode, NoBdm,
                 NoLtd, SubName)),
     Entry("map", "AWS::IAM::Role",
           Props("map", NoNode, NoNode, NoNode, NoNode, NoBdm, NoLtd, GetAttArn)),
     Entry("map", "AWS::S3::Bucket",
           Props("map", NoNode, NoNode, NoNode, NoNode, NoBdm, NoLtd,
                 MapNode("GetAtt", "k", <<"v">>))),
     Entry("map", "AWS::EC2::NatGateway",
           Props("none", NoNode, NoNode, NoNode, NoNode, NoBdm, NoLtd, NoNode)),
     Entry("map", "",
           Props("absent", NoNode, NoNode, NoNode, NoNode, NoBdm, NoLtd, NoNode)),
     Entry("scalar", "",
           Props("absent", NoNode, NoNode, NoNode, NoNode, NoBdm, NoLtd, NoNode))}

\* The nodes of an entry's Properties
MappingNodes(bdm) ==
    {bdm.node}
    \cup UNION {{bdm.entries[i].VolumeSize, bdm.entries[i].VolumeType,
                 bdm.entries[i].node} : i \in DOMAIN bdm.entries}

PropertyNodes(properties) ==
    {properties.InstanceType, properties.DBInstanceClass, properties.NodeType,
     properties.CacheNodeType, properties.Other,
     properties.LaunchTemplateData.node}
    \cup MappingNodes(properties.BlockDeviceMappings)
    \cup MappingNodes(properties.LaunchTemplateData.BlockDeviceMappings)

\* JSON has no tags
Untagged(entry) == \A node \in PropertyNodes(entry.Properties) : node.tag = ""

HasTags(content) ==
    /\ content.Resources.kind = "map"
    /\ \E i \in DOMAIN content.Resources.entries :
          ~Untagged(content.Resources.entries[i].data)

TableAtLoad_NotYet(multi_constructors) == multi_constructors

\* The table at the time of yaml.safe_load: both methods register the
\* constructor before they load
TableAtLoad(multi_constructors) == add_multi_constructor(multi_constructors)

\* The document as yaml.safe_load reads it with the table: a tag without a
\* constructor raises ConstructorError
AsLoaded(content, multi_constructors) ==
    IF HasTags(content) /\ "!" \notin multi_constructors
    THEN [content EXCEPT !.yaml = "error"]
    ELSE content

NamedEntries(entries) ==
    [i \in 1..Len(entries) |-> [name |-> PositionNames[i], data |-> entries[i]]]

EntryLists(entries, max_resources) ==
    UNION {{NamedEntries(es) : es \in [1..n -> entries]} : n \in 0..max_resources}

CfContents(max_resources) ==
    {Content("error", "error", "none", NoSection, NoSection)}
    \cup {Content("ok", "error", top, NoSection, NoSection) :
             top \in {"none", "scalar", "list"}}
    \cup {Content("error", "ok", top, NoSection, NoSection) :
             top \in {"scalar", "list"}}
    \cup {Content("ok", "error", "map", parameters, resources) :
             parameters \in {NoSection, Section("none", <<>>),
                             Section("map", DeclaredParameters)},
             resources \in {NoSection, Section("none", <<>>)}}
    \cup {Content("ok", "error", "map", parameters, Section("map", es)) :
             parameters \in {NoSection, Section("map", DeclaredParameters)},
             es \in EntryLists(CfEntries, max_resources)}
    \cup {Content("error", "ok", "map", Section("map", DeclaredParameters),
                  Section("map", es)) :
             es \in EntryLists({e \in CfEntries : Untagged(e)}, max_resources)}

InitCf == \E content \in CfContents(MaxResources) : Start(content)

\* _extract_cloudformation_resources(content, parameters), with the
\* parameters analyze_cloudformation passes
ExtractCloudformationResources ==
    LET content == AsLoaded(arg, TableAtLoad(yaml_multi_constructors))
        result == extract_cloudformation_resources(content,
                                                   TemplateParameters(content))
    IN
    /\ pc = "ready"
    /\ pc' = "done" /\ op' = "extract_cloudformation_resources"
    /\ yaml_multi_constructors' = add_multi_constructor(yaml_multi_constructors)
    /\ ret' = result.resources /\ raised' = result.raised
    /\ UNCHANGED <<arg, cost_breakdowns, total_monthly_cost, previous, env>>

AnalyzeCloudformation ==
    LET content == AsLoaded(arg, TableAtLoad(yaml_multi_constructors))
        result == extract_cloudformation_resources(content,
                                                   TemplateParameters(content))
    IN
    /\ pc = "ready"
    /\ yaml_multi_constructors' = add_multi_constructor(yaml_multi_constructors)
    /\ UNCHANGED <<previous, env>>
    /\ IF result.raised
       THEN /\ pc' = "done" /\ op' = "analyze_cloudformation"
            /\ ret' = <<>> /\ raised' = TRUE
            /\ UNCHANGED <<arg, cost_breakdowns, total_monthly_cost>>
       ELSE ReturnCosts("analyze_cloudformation", result.resources)

NextCf == ExtractCloudformationResources \/ AnalyzeCloudformation

SpecCf == InitCf /\ [][NextCf]_vars

-----------------------------------------------------------------------------
(* CloudFormation size resolution: Properties with any of the four size    *)
(* keys, each absent, a literal, a Ref or another intrinsic                *)

SizeNodes ==
    {NoNode, StrNode("", T3Large), Ref(ParamP), Ref(ParamQ), Ref(ParamR),
     MapNode("", "Ref", ParamN), SubName}

SizeProperties ==
    {Props("map", it, dbc, nt, cnt, NoBdm, NoLtd, NoNode) :
        it \in SizeNodes, dbc \in SizeNodes, nt \in SizeNodes, cnt \in SizeNodes}

InitRef ==
    \E properties \in SizeProperties, parameters \in {<<>>, DeclaredParameters} :
        Start([properties |-> properties, parameters |-> parameters])

ExtractCfInstanceType ==
    /\ pc = "ready"
    /\ Return("extract_cf_instance_type",
              extract_cf_instance_type(LoadProps(arg.properties), arg.parameters))

NextRef == ExtractCfInstanceType

SpecRef == InitRef /\ [][NextRef]_vars

-----------------------------------------------------------------------------
(* Scans in sequence: one process, calls on the Terraform file and on the  *)
(* CloudFormation template of a target, on the same or on a new analyzer   *)

NameB == <<"b">>

NameWeb == <<"w", "e", "b">>

\* resource "aws_instance" "web" { instance_type = "t3.large" }
WebText ==
    <<Hdr("aws_instance", NameWeb), LB, AttrS("instance_type", T3Large), RB>>

ScanTexts ==
    {<<>>,
     WebText,
     <<Hdr("aws_instance", NameA), LB, AttrS("instance_type", T3Large),
       Kw("root_block_device"), LB, AttrN("volume_size", 100), RB, RB>>,
     <<Hdr("aws_instance", NameA), LB, AttrS("instance_type", T3Large), RB,
       Hdr("aws_s3_bucket", NameA), LB, RB>>,
     <<Hdr("aws_nat_gateway", NameB), LB, RB,
       Hdr("aws_instance", NameA), LB, RB>>}

ScanTemplates ==
    {Content("error", "error", "none", NoSection, NoSection),
     Content("ok", "error", "map", NoSection,
             Section("map", NamedEntries(
                 <<Instance(StrNode("", T3Large), BdmList(<<Vol100Gp3, Vol50>>))>>))),
     Content("ok", "error", "map", Section("map", DeclaredParameters),
             Section("map", NamedEntries(
                 <<Instance(Ref(ParamP), NoBdm),
                   Instance(StrNode("", T3Large), BdmList(<<Vol100Gp3>>))>>))),
     Content("ok", "error", "map", NoSection,
             Section("map", NamedEntries(
                 <<Instance(StrNode("", T3Large), BdmList(<<VolTypeRef>>))>>)))}

ScanTargets ==
    {[text |-> text, template |-> template] :
        text \in ScanTexts, template \in ScanTemplates}

InitScan == \E target \in ScanTargets : Start(target)

ScanExtractTerraform ==
    /\ pc = "ready"
    /\ Return("extract_terraform_resources",
              extract_terraform_resources(arg.text))

ScanAnalyzeTerraform ==
    /\ pc = "ready"
    /\ ReturnCosts("analyze_terraform", extract_terraform_resources(arg.text))
    /\ UNCHANGED <<yaml_multi_constructors, previous, env>>

ScanExtractCloudformation ==
    LET content == AsLoaded(arg.template, TableAtLoad(yaml_multi_constructors))
        result == extract_cloudformation_resources(content,
                                                   TemplateParameters(content))
    IN
    /\ pc = "ready"
    /\ pc' = "done" /\ op' = "extract_cloudformation_resources"
    /\ yaml_multi_constructors' = add_multi_constructor(yaml_multi_constructors)
    /\ ret' = result.resources /\ raised' = result.raised
    /\ UNCHANGED <<arg, cost_breakdowns, total_monthly_cost, previous, env>>

ScanAnalyzeCloudformation ==
    LET content == AsLoaded(arg.template, TableAtLoad(yaml_multi_constructors))
        result == extract_cloudformation_resources(content,
                                                   TemplateParameters(content))
    IN
    /\ pc = "ready"
    /\ yaml_multi_constructors' = add_multi_constructor(yaml_multi_constructors)
    /\ UNCHANGED <<previous, env>>
    /\ ReturnCosts("analyze_cloudformation", result.resources)

\* IdleResourceDetector.analyze: the lookup by name, where a later
\* breakdown of a name replaces an earlier one
cost_map(breakdowns) ==
    [name \in {breakdowns[i].resource_name : i \in DOMAIN breakdowns} |->
        breakdowns[Max({i \in DOMAIN breakdowns :
                           breakdowns[i].resource_name = name})]]

\* The breakdown _check_idle_patterns gets for each resource: cost_map.get,
\* <<>> for None
IdlePairs(resources, breakdowns) ==
    [i \in DOMAIN resources |->
        [resource |-> resources[i],
         cost_breakdown |->
            IF resources[i].name \in DOMAIN cost_map(breakdowns)
            THEN <<cost_map(breakdowns)[resources[i].name]>>
            ELSE <<>>]]

\* The idle detection of the scanner after analyze_terraform returned: on
\* the resources of a second extraction and the breakdowns of the analysis
IdleDetectorAnalyze ==
    /\ pc = "ready" /\ op = "analyze_terraform" /\ ~raised
    /\ Return("idle_detector_analyze",
              IdlePairs(extract_terraform_resources(arg.text), ret))

\* The caller, after a call returned or raised: the same call again, on
\* the same analyzer
Again ==
    /\ pc = "done"
    /\ pc' = "ready"
    /\ previous' = [op |-> op, ret |-> ret, raised |-> raised]
    /\ UNCHANGED <<op, arg, ret, raised, cost_breakdowns, total_monthly_cost,
                   yaml_multi_constructors, env>>

\* ... or on a new CostAnalyzer()
FreshAnalyzer ==
    /\ pc = "done"
    /\ pc' = "ready"
    /\ previous' = [op |-> op, ret |-> ret, raised |-> raised]
    /\ cost_breakdowns' = <<>> /\ total_monthly_cost' = 0
    /\ UNCHANGED <<op, arg, ret, raised, yaml_multi_constructors, env>>

\* ... or the next target, on the same analyzer
NextTarget ==
    /\ pc = "done"
    /\ \E target \in ScanTargets :
          /\ arg' = target
          /\ pc' = "ready" /\ op' = "" /\ ret' = <<>> /\ raised' = FALSE
          /\ previous' = NoCall
          /\ UNCHANGED <<cost_breakdowns, total_monthly_cost,
                         yaml_multi_constructors, env>>

NextScan ==
    \/ ScanExtractTerraform \/ ScanAnalyzeTerraform
    \/ ScanExtractCloudformation \/ ScanAnalyzeCloudformation
    \/ IdleDetectorAnalyze \/ Again \/ FreshAnalyzer \/ NextTarget

SpecScan == InitScan /\ [][NextScan]_vars

-----------------------------------------------------------------------------
(* is_gpu_instance on the instance types of the EC2 price table            *)

\* The keys of AWS_COST_ESTIMATES["aws_instance"] that the table marks
\* "GPU instance"
GpuMarkedSizes ==
    {<<"p","3",".","2","x","l","a","r","g","e">>,
     <<"p","3",".","8","x","l","a","r","g","e">>,
     <<"p","3",".","1","6","x","l","a","r","g","e">>,
     <<"p","4","d",".","2","4","x","l","a","r","g","e">>,
     <<"g","4","d","n",".","x","l","a","r","g","e">>,
     <<"g","4","d","n",".","2","x","l","a","r","g","e">>,
     <<"g","5",".","x","l","a","r","g","e">>,
     <<"g","5",".","2","x","l","a","r","g","e">>}

\* ... and its other keys
PlainSizes ==
    {<<"t","2",".","m","i","c","r","o">>,
     <<"t","2",".","s","m","a","l","l">>,
     <<"t","2",".","m","e","d","i","u","m">>,
     <<"t","2",".","l","a","r","g","e">>,
     <<"t","3",".","m","i","c","r","o">>,
     <<"t","3",".","s","m","a","l","l">>,
     <<"t","3",".","m","e","d","i","u","m">>,
     <<"t","3",".","l","a","r","g","e">>,
     <<"t","3",".","x","l","a","r","g","e">>,
     <<"t","3",".","2","x","l","a","r","g","e">>,
     <<"m","5",".","l","a","r","g","e">>,
     <<"m","5",".","x","l","a","r","g","e">>,
     <<"m","5",".","2","x","l","a","r","g","e">>,
     <<"m","5",".","4","x","l","a","r","g","e">>,
     <<"m","5",".","8","x","l","a","r","g","e">>,
     <<"c","5",".","l","a","r","g","e">>,
     <<"c","5",".","x","l","a","r","g","e">>,
     <<"c","5",".","2","x","l","a","r","g","e">>,
     <<"c","5",".","4","x","l","a","r","g","e">>,
     <<"r","5",".","l","a","r","g","e">>,
     <<"r","5",".","x","l","a","r","g","e">>,
     <<"r","5",".","2","x","l","a","r","g","e">>}

UpperChar(c) ==
    IF \E i \in 1..26 : LowerChars[i] = c
    THEN UpperChars[CHOOSE i \in 1..26 : LowerChars[i] = c]
    ELSE c

\* str.upper()
PyUpper(s) == [i \in 1..Len(s) |-> UpperChar(s[i])]

\* str.capitalize() of a lower-case string
PyCapitalize(s) == [i \in 1..Len(s) |-> IF i = 1 THEN UpperChar(s[i]) ELSE s[i]]

\* The instance types asked about: the keys of the table as written, in
\* upper case and capitalized, and the empty string
GpuQueries ==
    {<<>>} \cup UNION {{size, PyUpper(size), PyCapitalize(size)} :
                          size \in GpuMarkedSizes \cup PlainSizes}

InitGpu == \E instance_type \in GpuQueries : Start(instance_type)

IsGpuInstance ==
    /\ pc = "ready"
    /\ Return("is_gpu_instance", is_gpu_instance(arg))

NextGpu == IsGpuInstance

SpecGpu == InitGpu /\ [][NextGpu]_vars

-----------------------------------------------------------------------------
(* AMICVEScanner.check_ami                                                 *)

KnownVulnerableId == <<"a","m","i","-","0","a","b","c","d","e","f","1","2","3","4","5","6","7","8","9","0">>

KNOWN_VULNERABLE_AMIS ==
    (KnownVulnerableId :>
        [cves |-> <<"CVE-2024-12345">>, severity |-> "HIGH",
         recommendation |-> "Use latest Amazon Linux 2023 AMI"])

\* The literal parts of each pattern, which ".*" separates
OUTDATED_PATTERNS ==
    << <<<<"a","m","a","z","o","n">>, <<"l","i","n","u","x">>, <<"2","0","1","8">>>>,
       <<<<"u","b","u","n","t","u">>, <<"1","4",".","0","4">>>>,
       <<<<"u","b","u","n","t","u">>, <<"1","6",".","0","4">>>>,
       <<<<"c","e","n","t","o","s">>, <<"6">>>>,
       <<<<"r","h","e","l">>, <<"6">>>> >>

AMICVE(ami_id, ami_name, has_cve, cve_ids, is_outdated, severity, recommendation) ==
    [ami_id |-> ami_id, ami_name |-> ami_name, has_cve |-> has_cve,
     cve_ids |-> cve_ids, is_outdated |-> is_outdated,
     severity |-> severity, recommendation |-> recommendation]

\* re.search of the parts in order from position from of s, any characters
\* but a newline between them
RECURSIVE SearchParts(_, _, _)
SearchParts(s, parts, from) ==
    IF parts = <<>> THEN TRUE
    ELSE \E i \in from..(Len(s) - Len(parts[1]) + 1) :
            /\ SubSeq(s, i, i + Len(parts[1]) - 1) = parts[1]
            /\ \A j \in from..(i - 1) : s[j] # "\n"
            /\ SearchParts(s, Tail(parts), i + Len(parts[1]))

\* re.search(pattern, ami_name, re.IGNORECASE)
SearchIgnoreCase(parts, ami_name) ==
    \E start \in 1..(Len(ami_name) - Len(parts[1]) + 1) :
        LET s == PyLower(ami_name) IN
        /\ SubSeq(s, start, start + Len(parts[1]) - 1) = parts[1]
        /\ SearchParts(s, Tail(parts), start + Len(parts[1]))

HexChars == {"a", "b", "c", "d", "e", "f",
             "0", "1", "2", "3", "4", "5", "6", "7", "8", "9"}

AmiPrefix == <<"a", "m", "i", "-", "0">>

\* re.match(r'ami-0[a-f0-9]{16}$', ami_id): the five characters "ami-0",
\* then sixteen hexadecimal digits, then the end (or a last newline)
MatchesPlaceholderPattern(ami_id) ==
    LET id == IF Len(ami_id) = 22 /\ ami_id[22] = "\n"
              THEN SubSeq(ami_id, 1, 21) ELSE ami_id
    IN  /\ Len(id) = 21
        /\ SubSeq(id, 1, 5) = AmiPrefix
        /\ \A i \in 6..21 : id[i] \in HexChars

EndsWith(s, c) == Len(s) > 0 /\ s[Len(s)] = c

check_ami(ami_id, ami_name) ==
    IF ami_id \in DOMAIN KNOWN_VULNERABLE_AMIS
    THEN LET vuln_info == KNOWN_VULNERABLE_AMIS[ami_id] IN
         AMICVE(ami_id, ami_name, TRUE, vuln_info.cves, FALSE,
                vuln_info.severity, vuln_info.recommendation)
    ELSE IF Truthy(ami_name)
            /\ \E k \in DOMAIN OUTDATED_PATTERNS :
                   SearchIgnoreCase(OUTDATED_PATTERNS[k], ami_name)
    THEN AMICVE(ami_id, ami_name, FALSE, <<>>, TRUE, "MEDIUM",
                "AMI appears outdated based on name pattern. Consider using latest version.")
    ELSE IF MatchesPlaceholderPattern(ami_id) /\ EndsWith(ami_id, "0")
    THEN AMICVE(ami_id, ami_name, FALSE, <<>>, FALSE, "LOW",
                "AMI appears to be a placeholder. Use actual AMI ID for deployment.")
    ELSE AMICVE(ami_id, ami_name, FALSE, <<>>, FALSE, "INFO",
                "No known CVEs detected (note: comprehensive check requires AWS API access)")

\* "ami-" and sixteen zeros
ZerosId == <<"a","m","i","-","0","0","0","0","0","0","0","0","0","0","0","0","0","0","0","0">>

CleanId == <<"a","m","i","-","0","1","2","3","4","5","6","7","8","9","a","b","c","d","e","f","0">>

\* "ami-0", then n times the character c, then the character last
RepeatedId(n, c, last) == AmiPrefix \o [i \in 1..n |-> c] \o <<last>>

AmiIds ==
    {KnownVulnerableId, ZerosId, CleanId}
    \cup {RepeatedId(n, c, last) :
             n \in 14..16, c \in {"0", "a", "g"}, last \in {"0", "1"}}

AmiNames ==
    {None,
     <<"U","b","u","n","t","u","-","1","4",".","0","4">>,
     <<"1","6",".","0","4"," ","u","b","u","n","t","u">>,
     <<"C","e","n","t","O","S"," ","6">>,
     <<"a","l","2","0","2","3">>}

InitAmi ==
    \E ami_id \in AmiIds, ami_name \in AmiNames :
        Start([ami_id |-> ami_id, ami_name |-> ami_name])

CheckAmi ==
    /\ pc = "ready"
    /\ Return("check_ami", check_ami(arg.ami_id, arg.ami_name))

NextAmi == CheckAmi

SpecAmi == InitAmi /\ [][NextAmi]_vars

-----------------------------------------------------------------------------
(* PricingCache and the pricing API objects: one object and its cache, the *)
(* clock, and calls in sequence                                            *)

MaxTime == 3

MaxTtl == 1

\* PricingCache(ttl)
PricingCache(ttl) == [ttl |-> ttl, entries |-> <<>>]

Restrict(f, keys) == IF keys = {} THEN <<>> ELSE [k \in keys |-> f[k]]

\* A variant of the expiry test that takes the end of the TTL for expired
Expired_AtTtl(entry, now) == now >= entry.expires

\* time.time() > entry['expires']
Expired(entry, now) == now > entry.expires

\* PricingCache.get at time now: the value returned (<<>> for None, else
\* the value in a sequence of one) and the cache after it
PricingCache_get(c, key, now) ==
    IF key \notin DOMAIN c.entries
    THEN [value |-> <<>>, cache |-> c]
    ELSE IF Expired(c.entries[key], now)
    THEN [value |-> <<>>,
          cache |-> [c EXCEPT !.entries =
                        Restrict(c.entries, DOMAIN c.entries \ {key})]]
    ELSE [value |-> <<c.entries[key].value>>, cache |-> c]

\* A variant of set that keeps no other entry
PricingCache_set_Only(c, key, value, now) ==
    [c EXCEPT !.entries =
        (key :> [value |-> value, expires |-> now + c.ttl, created |-> now])]

\* PricingCache.set at time now
PricingCache_set(c, key, value, now) ==
    [c EXCEPT !.entries =
        (key :> [value |-> value, expires |-> now + c.ttl, created |-> now])
        @@ c.entries]

\* PricingCache.clear
PricingCache_clear(c) == [c EXCEPT !.entries = <<>>]

\* PricingCache.cleanup_expired at time now
cleanup_expired(c, now) ==
    [c EXCEPT !.entries =
        Restrict(c.entries,
                 {k \in DOMAIN c.entries : ~Expired(c.entries[k], now)})]

\* PricingCache.size at time now: the number returned and the cache after
\* the removal of the expired entries
PricingCache_size(c, now) ==
    LET cleaned == cleanup_expired(c, now)
    IN  [value |-> Cardinality(DOMAIN cleaned.entries), cache |-> cleaned]

UsEast1 == <<"u","s","-","e","a","s","t","-","1">>

EastUs == <<"e","a","s","t","u","s">>

GcpUsEast1 == <<"u","s","-","e","a","s","t","1">>

Mysql == <<"m","y","s","q","l">>

Underscore == <<"_">>

\* f"ec2_{instance_type}_{region}"
Ec2Key(instance_type, region) ==
    <<"e","c","2","_">> \o instance_type \o Underscore \o region

\* f"rds_{instance_class}_{engine}_{region}"
RdsKey(instance_class, engine, region) ==
    <<"r","d","s","_">> \o instance_class \o Underscore \o engine
    \o Underscore \o region

\* f"vm_{vm_size}_{region}"
VmKey(vm_size, region) == <<"v","m","_">> \o vm_size \o Underscore \o region

\* f"instance_{machine_type}_{region}"
InstanceKey(machine_type, region) ==
    <<"i","n","s","t","a","n","c","e","_">> \o machine_type \o Underscore
    \o region

\* AWSPricingAPI._initialize_boto3: the fields of the object, given whether
\* boto3 imports, whether "aws s3 ls" exits with 0 within its timeout, and
\* whether boto3.client('pricing') returns
initialize_boto3(importable, credentials_ok, client_ok) ==
    [provider |-> "AWS", region |-> UsEast1,
     boto3_available |-> importable,
     pricing_client |-> importable /\ credentials_ok /\ client_ok,
     credentials_available |-> importable /\ credentials_ok /\ client_ok,
     initialization_error |->
        IF ~importable THEN Some("boto3 not installed")
        ELSE IF ~credentials_ok THEN Some("No AWS credentials configured")
        ELSE IF ~client_ok THEN Some("Failed to create pricing client")
        ELSE NoStr,
     requested |-> FALSE]

\* AzurePricingAPI.__init__ and GCPPricingAPI.__init__, given whether the
\* requests library imports
check_requests_library(provider, region, importable) ==
    [provider |-> provider, region |-> region,
     api_available |-> importable,
     initialization_error |->
        IF importable THEN NoStr ELSE Some("requests library not installed"),
     requested |-> FALSE]

\* What a request to the live API gives: a monthly price, or 0 for no
\* price (no data, or an error that the fetch method catches)
FetchOutcomes == {0, 7300, 9490}

\* The result of a fetch method: None, or the price data
Fetched(price, price_data) == IF price = 0 THEN <<>> ELSE <<price_data>>

\* AWSPricingAPI._get_fallback_reason
get_fallback_reason(a) ==
    IF ~a.boto3_available THEN "boto3 not installed"
    ELSE IF ~a.credentials_available
    THEN IF a.initialization_error.none THEN "No AWS credentials"
         ELSE a.initialization_error.value
    ELSE "API call failed"

\* self.initialization_error or "API call failed"
OrApiCallFailed(a) ==
    IF a.initialization_error.none THEN "API call failed"
    ELSE a.initialization_error.value

\* A variant that looks the instance type up in the table of the database
\* classes
get_static_ec2_price_OfRds(a, instance_type, region) ==
    [instance_type |-> instance_type,
     monthly_cost |-> TableGet(AWS_COST_ESTIMATES["aws_db_instance"].items,
                               instance_type, 0),
     source |-> "static_fallback", region |-> region,
     fallback_reason |-> get_fallback_reason(a)]

\* AWSPricingAPI._get_static_ec2_price
get_static_ec2_price(a, instance_type, region) ==
    [instance_type |-> instance_type,
     monthly_cost |-> TableGet(AWS_COST_ESTIMATES["aws_instance"].items,
                               instance_type, 0),
     source |-> "static_fallback", region |-> region,
     fallback_reason |-> get_fallback_reason(a)]

\* AWSPricingAPI._get_static_rds_price
get_static_rds_price(a, instance_class, engine, region) ==
    [instance_class |-> instance_class, engine |-> engine,
     monthly_cost |-> TableGet(AWS_COST_ESTIMATES["aws_db_instance"].items,
                               instance_class, 0),
     source |-> "static_fallback", region |-> region,
     fallback_reason |-> get_fallback_reason(a)]

\* The live result of _fetch_ec2_price_from_api and the other fetch methods
LiveEc2(instance_type, region, monthly_cost) ==
    [instance_type |-> instance_type, monthly_cost |-> monthly_cost,
     source |-> "aws_pricing_api", region |-> region]

LiveRds(instance_class, engine, region, monthly_cost) ==
    [instance_class |-> instance_class, engine |-> engine,
     monthly_cost |-> monthly_cost, source |-> "aws_pricing_api",
     region |-> region]

LiveVm(vm_size, region, monthly_cost) ==
    [vm_size |-> vm_size, monthly_cost |-> monthly_cost,
     source |-> "azure_retail_api", region |-> region]

LiveInstance(machine_type, region, monthly_cost) ==
    [machine_type |-> machine_type, monthly_cost |-> monthly_cost,
     source |-> "gcp_billing_api", region |-> region]

\* The static results of get_vm_pricing and get_instance_pricing
StaticVm(a, vm_size, region) ==
    [vm_size |-> vm_size,
     monthly_cost |->
        TableGet(AZURE_COST_ESTIMATES["azurerm_virtual_machine"].items,
                 vm_size, 0),
     source |-> "static_fallback", region |-> region,
     fallback_reason |-> OrApiCallFailed(a)]

StaticInstance(a, machine_type, region) ==
    [machine_type |-> machine_type,
     monthly_cost |->
        TableGet(GCP_COST_ESTIMATES["google_compute_instance"].items,
                 machine_type, 0),
     source |-> "static_fallback", region |-> region,
     fallback_reason |-> OrApiCallFailed(a)]

\* A variant of the getters that stores what it returns, whatever its
\* source
StoredAfterGetter_Always(c, key, live, fetched, fallback, now) ==
    PricingCache_set(c, key,
                     IF live /\ fetched # <<>> THEN fetched[1] ELSE fallback,
                     now)

\* The cache after a getter that found no cached value: the price is
\* stored when the live API was asked and gave one
StoredAfterGetter(c, key, live, fetched, fallback, now) ==
    IF live /\ fetched # <<>> THEN PricingCache_set(c, key, fetched[1], now)
    ELSE c

\* The common shape of get_ec2_pricing, get_rds_pricing, get_vm_pricing and
\* get_instance_pricing at time now: the cached value if there is one, else
\* the fetched price if the live API is enabled (live) and gives one
\* (fetched, <<>> for none), else the static fallback. Gives the value
\* returned, the cache after the call and whether the live API was asked.
GetPricing(c, key, live, fetched, fallback, now) ==
    LET cached == PricingCache_get(c, key, now) IN
    IF cached.value # <<>>
    THEN [value |-> cached.value[1], cache |-> cached.cache,
          requested |-> FALSE]
    ELSE [value |-> IF live /\ fetched # <<>> THEN fetched[1] ELSE fallback,
          cache |-> StoredAfterGetter(cached.cache, key, live, fetched,
                                      fallback, now),
          requested |-> live]

\* A call on the object: the method, its arguments and what it returned;
\* the analyzers, the logger and the tool runner are not involved
Call(name, input, value) ==
    /\ pc \in {"ready", "done"}
    /\ pc' = "done" /\ op' = name /\ arg' = input /\ ret' = value
    /\ raised' = FALSE
    /\ UNCHANGED <<cost_breakdowns, total_monthly_cost,
                   yaml_multi_constructors, previous, logger, results>>

GetterCall(name, input, result) ==
    /\ Call(name, input, result.value)
    /\ cache' = result.cache
    /\ api' = [api EXCEPT !.requested = result.requested]
    /\ UNCHANGED time

Ec2Sizes == {T3Micro, <<"x">>}

RdsClasses == {DbT3Micro}

VmSizes == {Standard_B1s, <<"x">>}

MachineTypes == {F1Micro, <<"x">>}

GetEc2Pricing ==
    /\ api.provider = "AWS"
    /\ \E instance_type \in Ec2Sizes, price \in FetchOutcomes :
          GetterCall("get_ec2_pricing", [instance_type |-> instance_type],
              GetPricing(cache, Ec2Key(instance_type, api.region),
                  api.credentials_available /\ api.pricing_client,
                  Fetched(price, LiveEc2(instance_type, api.region, price)),
                  get_static_ec2_price(api, instance_type, api.region),
                  time))

GetRdsPricing ==
    /\ api.provider = "AWS"
    /\ \E instance_class \in RdsClasses, price \in FetchOutcomes :
          GetterCall("get_rds_pricing",
              [instance_class |-> instance_class, engine |-> Mysql],
              GetPricing(cache, RdsKey(instance_class, Mysql, api.region),
                  api.credentials_available /\ api.pricing_client,
                  Fetched(price,
                          LiveRds(instance_class, Mysql, api.region, price)),
                  get_static_rds_price(api, instance_class, Mysql,
                                       api.region),
                  time))

GetVmPricing ==
    /\ api.provider = "Azure"
    /\ \E vm_size \in VmSizes, price \in FetchOutcomes :
          GetterCall("get_vm_pricing", [vm_size |-> vm_size],
              GetPricing(cache, VmKey(vm_size, api.region),
                  api.api_available,
                  Fetched(price, LiveVm(vm_size, api.region, price)),
                  StaticVm(api, vm_size, api.region), time))

GetInstancePricing ==
    /\ api.provider = "GCP"
    /\ \E machine_type \in MachineTypes, price \in FetchOutcomes :
          GetterCall("get_instance_pricing", [machine_type |-> machine_type],
              GetPricing(cache, InstanceKey(machine_type, api.region),
                  api.api_available,
                  Fetched(price,
                          LiveInstance(machine_type, api.region, price)),
                  StaticInstance(api, machine_type, api.region), time))

\* AWSPricingAPI.get_pricing_status
aws_pricing_status(a, cache_size) ==
    [provider |-> "AWS", cache_size |-> cache_size,
     boto3_available |-> a.boto3_available,
     credentials_available |-> a.credentials_available,
     api_available |-> a.credentials_available,
     using_fallback |-> ~a.credentials_available,
     status |-> IF a.credentials_available THEN "Live API"
                ELSE "Using Fallback",
     note |-> IF a.credentials_available
              THEN "Live AWS Pricing API is active"
              ELSE IF ~a.boto3_available
              THEN "boto3 not installed. Install with: pip install boto3"
              ELSE "AWS credentials not configured."]

\* AzurePricingAPI.get_pricing_status and GCPPricingAPI.get_pricing_status
public_pricing_status(a, cache_size) ==
    [provider |-> a.provider, cache_size |-> cache_size,
     api_available |-> a.api_available,
     using_fallback |-> ~a.api_available,
     status |-> IF a.api_available THEN "Live API" ELSE "Using Fallback",
     note |-> IF a.api_available THEN "Live API (public)"
              ELSE "Pricing API unavailable"]

GetPricingStatus ==
    LET sized == PricingCache_size(cache, time) IN
    /\ Call("get_pricing_status", <<>>,
            IF api.provider = "AWS" THEN aws_pricing_status(api, sized.value)
            ELSE public_pricing_status(api, sized.value))
    /\ cache' = sized.cache
    /\ UNCHANGED <<time, api>>

\* The clock advances between calls
Tick ==
    /\ pc \in {"ready", "done"}
    /\ time < MaxTime
    /\ time' = time + 1
    /\ UNCHANGED <<pc, op, arg, ret, raised, cost_breakdowns,
                   total_monthly_cost, yaml_multi_constructors, previous,
                   cache, api, logger, results>>

\* The objects a process can construct, with every outcome of the checks
\* of the constructor
ApiObjects ==
    {initialize_boto3(importable, credentials_ok, client_ok) :
        importable \in BOOLEAN, credentials_ok \in BOOLEAN,
        client_ok \in BOOLEAN}
    \cup {check_requests_library("Azure", EastUs, importable) :
             importable \in BOOLEAN}
    \cup {check_requests_library("GCP", GcpUsEast1, importable) :
             importable \in BOOLEAN}

\* No call yet, on a new object with a cache of some TTL
Constructed(max_ttl) ==
    /\ pc = "ready" /\ op = "" /\ arg = <<>> /\ ret = <<>> /\ raised = FALSE
    /\ cost_breakdowns = <<>> /\ total_monthly_cost = 0
    /\ yaml_multi_constructors = {} /\ previous = NoCall
    /\ logger = <<>> /\ results = <<>>
    /\ time = 0
    /\ api \in ApiObjects
    /\ \E ttl \in 0..max_ttl : cache = PricingCache(ttl)

InitPricing == Constructed(MaxTtl)

NextPricing ==
    \/ GetEc2Pricing \/ GetRdsPricing \/ GetVmPricing \/ GetInstancePricing
    \/ GetPricingStatus \/ Tick

SpecPricing == InitPricing /\ [][NextPricing]_vars

\* The cache of an AWS or Azure object, used by the getters and directly
\* (as the unit tests do): the keys of the getters and two price records
CacheKeys(a) ==
    IF a.provider = "AWS"
    THEN {Ec2Key(instance_type, a.region) : instance_type \in Ec2Sizes}
    ELSE {VmKey(vm_size, a.region) : vm_size \in VmSizes}

CachedValues ==
    {[monthly_cost |-> 7590, source |-> "cache"],
     [monthly_cost |-> 1000, source |-> "cache"]}

CacheCall(name, input, value, after) ==
    /\ Call(name, input, value)
    /\ cache' = after
    /\ UNCHANGED <<time, api>>

CacheSet ==
    \E key \in CacheKeys(api), value \in CachedValues :
        CacheCall("set", [key |-> key, value |-> value], None,
                  PricingCache_set(cache, key, value, time))

CacheGet ==
    \E key \in CacheKeys(api) :
        LET result == PricingCache_get(cache, key, time) IN
        CacheCall("get", [key |-> key], result.value, result.cache)

CacheClear ==
    /\ api.provider \in {"AWS", "Azure"}
    /\ CacheCall("clear", <<>>, None, PricingCache_clear(cache))

CacheSize ==
    /\ api.provider \in {"AWS", "Azure"}
    /\ CacheCall("size", <<>>, PricingCache_size(cache, time).value,
                 PricingCache_size(cache, time).cache)

CacheCleanupExpired ==
    /\ api.provider \in {"AWS", "Azure"}
    /\ CacheCall("cleanup_expired", <<>>, None, cleanup_expired(cache, time))

InitCache == Constructed(MaxTtl) /\ api.provider \in {"AWS", "Azure"}

NextCache ==
    \/ CacheSet \/ CacheGet \/ CacheClear \/ CacheSize
    \/ CacheCleanupExpired \/ GetEc2Pricing \/ GetVmPricing \/ Tick

SpecCache == InitCache /\ [][NextCache]_vars

-----------------------------------------------------------------------------
(* ToolRunner and Scanner.scan: one Scanner, its logger and its tool runner *)

\* ToolResult(tool_name, exit_code, stdout, stderr)
ToolResult(tool_name, exit_code) ==
    [tool_name |-> tool_name, exit_code |-> exit_code,
     success |-> exit_code = 0]

\* What subprocess.run does with the command of a tool: the process exits
\* with a code, or it runs into the timeout, or the binary is missing, or
\* another exception is raised
Exit(code) == [kind |-> "exit", code |-> code]

Timeout == [kind |-> "timed out after 5 minutes", code |-> -1]

NotFound == [kind |-> "not found in PATH", code |-> -1]

OtherError == [kind |-> "execution failed", code |-> -1]

\* ScanLogger writes to its file while the file is open: the section titles
\* and [FAIL] lines that the file holds
Write(lg, lines) ==
    IF lg.file_handle THEN [lg EXCEPT !.written = @ \cup lines] ELSE lg

\* A variant of close that leaves the file open
logger_close_Skipped(lg) == lg

\* ScanLogger.close
logger_close(lg) == [lg EXCEPT !.file_handle = FALSE]

\* A variant that records the results of the processes that ran only
record_result_IfRan(rs, tool_result) ==
    IF tool_result.exit_code = -1 THEN rs
    ELSE (tool_result.tool_name :> tool_result) @@ rs

\* self.results[tool_name] = tool_result
record_result(rs, tool_result) ==
    (tool_result.tool_name :> tool_result) @@ rs

\* What run returns and leaves behind
Ran(rs, lg, tool_result) ==
    [result |-> tool_result, results |-> record_result(rs, tool_result),
     logger |-> lg]

\* ToolRunner.run: the result returned, results and the logger after it
run(rs, lg, tool_name, outcome) ==
    Ran(rs,
        IF outcome.kind = "exit" THEN lg ELSE Write(lg, {outcome.kind}),
        ToolResult(tool_name,
                   IF outcome.kind = "exit" THEN outcome.code ELSE -1))

\* run_cfn_lint takes the exit codes 4 and 8 (warnings, information) for a
\* success, on the object that results holds
cfn_lint_success(ran) ==
    IF ran.result.exit_code \in {4, 8}
    THEN [ran EXCEPT !.result.success = TRUE,
                     !.results["cfn-lint"].success = TRUE]
    ELSE ran

SectionOf ==
    ("cfn-lint" :> "CFN-Lint - CloudFormation Linter")
    @@ ("checkov" :> "Checkov - Infrastructure Security Scanner")
    @@ ("tflint" :> "TFLint - Terraform Linter")
    @@ ("tfsec" :> "TFSec - Terraform Security Scanner")
    @@ ("aws" :> "AWS CloudFormation Validation")

\* shutil.which("aws") finds nothing
Unavailable == [kind |-> "unavailable", code |-> 127]

\* run_cfn_lint, run_checkov, run_tflint, run_tfsec and
\* run_aws_cfn_validate on a file: the section, then run; without the AWS
\* CLI in the PATH run_aws_cfn_validate runs nothing and records nothing
run_tool(rs, lg, tool_name, outcome) ==
    IF outcome.kind = "unavailable"
    THEN [result |-> ToolResult(tool_name, outcome.code), results |-> rs,
          logger |-> lg]
    ELSE IF tool_name = "cfn-lint"
    THEN cfn_lint_success(run(rs, Write(lg, {SectionOf[tool_name]}),
                              tool_name, outcome))
    ELSE run(rs, Write(lg, {SectionOf[tool_name]}), tool_name, outcome)

\* ToolRunner.get_summary
get_summary(rs) ==
    [total_tools |-> Cardinality(DOMAIN rs),
     passed |-> Cardinality({t \in DOMAIN rs : rs[t].success}),
     failed |-> Cardinality({t \in DOMAIN rs : ~rs[t].success}),
     results |-> [t \in DOMAIN rs |->
                     [exit_code |-> rs[t].exit_code,
                      success |-> rs[t].success]]]

\* _run_native_intelligence reads the file and runs the cost analysis; an
\* exception of the analysis is caught and logged
NativeCosts(template_type, content, multi_constructors) ==
    IF template_type = "terraform"
    THEN calculate_costs(extract_terraform_resources(content))
    ELSE LET loaded == AsLoaded(content, TableAtLoad(multi_constructors))
             result == extract_cloudformation_resources(
                           loaded, TemplateParameters(loaded))
         IN  IF result.raised THEN [list |-> <<>>, raised |-> TRUE]
             ELSE calculate_costs(result.resources)

\* The tools of a scan so far: results, the logger, and the number of
\* tools with issues among those that count for the exit code
AfterTool(st, ran, counted) ==
    [results |-> ran.results, logger |-> ran.logger,
     issues |-> st.issues + (IF counted /\ ~ran.result.success THEN 1 ELSE 0)]

RECURSIVE RunTools(_, _, _)
RunTools(st, tools, outcomes) ==
    IF tools = <<>> THEN st
    ELSE RunTools(AfterTool(st,
                            run_tool(st.results, st.logger, Head(tools),
                                     Head(outcomes)),
                            Head(tools) # "aws"),
                  Tail(tools), Tail(outcomes))

\* _scan_terraform, _scan_cloudformation and the scans with Checkov alone
ToolsOf(scan_type) ==
    IF scan_type = "terraform" THEN <<"tflint", "tfsec", "checkov">>
    ELSE IF scan_type = "cloudformation" THEN <<"cfn-lint", "checkov", "aws">>
    ELSE <<"checkov">>

CheckovScanTypes == {"docker", "kubernetes", "arm", "bicep", "gcp"}

ScanTypes == {"terraform", "cloudformation"} \cup CheckovScanTypes

\* The exit value of a process inside a scan
ScanOutcomes == {Exit(0), Exit(4), NotFound}

\* ... and in a run of its own
RunOutcomes == {Exit(0), Exit(1), Timeout, NotFound, OtherError}

CfnLintOutcomes == {Exit(0), Exit(2), Exit(4), Exit(8), NotFound}

\* The tools run on their own
ToolNames == {"checkov", "tfsec"}

\* The target of a scan: whether the path exists, and the text of the file
Targets(scan_type) ==
    {[scan_type |-> scan_type, exists |-> FALSE, content |-> <<>>]}
    \cup {[scan_type |-> scan_type, exists |-> TRUE, content |-> content] :
             content \in IF scan_type = "terraform" THEN {<<>>, WebText}
                         ELSE IF scan_type = "cloudformation"
                         THEN ScanTemplates
                         ELSE {<<>>}}

\* The end of scan(): the target is missing or the type unsupported, or
\* the tools and the native analysis have run (tools, costs) and the
\* summary is written, or an exception that nothing inside scan catches
\* arrives meanwhile (interrupted); the logger is closed in each case
ScanEnds(target, header, tools, native, costs, interrupted) ==
    /\ pc' = "done" /\ op' = "scan" /\ arg' = target
    /\ UNCHANGED <<previous, cache, time, api>>
    /\ IF ~target.exists \/ target.scan_type \notin ScanTypes
       THEN /\ ret' = 1 /\ raised' = FALSE
            /\ logger' = logger_close(
                  Write(header, {IF ~target.exists THEN "not found"
                                 ELSE "Unsupported scan type"}))
            /\ UNCHANGED <<results, cost_breakdowns, total_monthly_cost,
                           yaml_multi_constructors>>
       ELSE /\ results' = tools.results
            /\ IF native /\ ~costs.raised
               THEN /\ cost_breakdowns' = costs.list
                    /\ total_monthly_cost' = TotalOf(costs.list)
               ELSE UNCHANGED <<cost_breakdowns, total_monthly_cost>>
            /\ yaml_multi_constructors' =
                  IF target.scan_type = "cloudformation"
                  THEN add_multi_constructor(yaml_multi_constructors)
                  ELSE yaml_multi_constructors
            /\ IF interrupted
               THEN /\ ret' = <<>> /\ raised' = TRUE
                    /\ logger' = logger_close(
                          IF native THEN Write(tools.logger, {"Cost Analysis"})
                          ELSE tools.logger)
               ELSE /\ ret' = (IF tools.issues > 0 THEN 1 ELSE 0)
                    /\ raised' = FALSE
                    /\ logger' = logger_close(
                          Write(tools.logger,
                                IF native THEN {"Cost Analysis", "Scan Summary"}
                                ELSE {"Scan Summary"}))

\* Scanner(scan_type, target).scan()
Scan ==
    /\ pc = "ready"
    /\ \E scan_type \in ScanTypes \cup {"unknown"} :
       \E target \in Targets(scan_type) :
       \E o1 \in ScanOutcomes, o2 \in ScanOutcomes,
          o3 \in ScanOutcomes \cup {Unavailable} :
       \E interrupted \in BOOLEAN :
          ScanEnds(target, Write(logger, {"Security Scan"}),
                   RunTools([results |-> results,
                             logger |-> Write(logger, {"Security Scan"}),
                             issues |-> 0],
                            ToolsOf(scan_type), <<o1, o2, o3>>),
                   scan_type \in {"terraform", "cloudformation"},
                   NativeCosts(scan_type, target.content,
                               yaml_multi_constructors),
                   interrupted)

\* A call on the tool runner of the scanner
ToolCall(name, input, value) ==
    /\ pc \in {"ready", "done"}
    /\ pc' = "done" /\ op' = name /\ arg' = input /\ ret' = value
    /\ raised' = FALSE
    /\ UNCHANGED <<cost_breakdowns, total_monthly_cost,
                   yaml_multi_constructors, previous, cache, time, api>>

ToolRun ==
    \E tool_name \in ToolNames, outcome \in RunOutcomes :
        LET ran == run(results, logger, tool_name, outcome) IN
        /\ ToolCall("run", [tool_name |-> tool_name, outcome |-> outcome],
                    ran.result)
        /\ results' = ran.results /\ logger' = ran.logger

RunCfnLint ==
    \E outcome \in CfnLintOutcomes :
        LET ran == run_tool(results, logger, "cfn-lint", outcome) IN
        /\ ToolCall("run_cfn_lint",
                    [tool_name |-> "cfn-lint", outcome |-> outcome],
                    ran.result)
        /\ results' = ran.results /\ logger' = ran.logger

GetSummary ==
    /\ ToolCall("get_summary", <<>>, get_summary(results))
    /\ UNCHANGED <<results, logger>>

\* A new Scanner: the log file is open and no tool has run
InitTool ==
    /\ pc = "ready" /\ op = "" /\ arg = <<>> /\ ret = <<>> /\ raised = FALSE
    /\ cost_breakdowns = <<>> /\ total_monthly_cost = 0
    /\ yaml_multi_constructors = {} /\ previous = NoCall
    /\ cache = <<>> /\ time = 0 /\ api = <<>>
    /\ logger = [file_handle |-> TRUE, written |-> {}]
    /\ results = <<>>

NextTool == Scan \/ ToolRun \/ RunCfnLint \/ GetSummary

SpecTool == InitTool /\ [][NextTool]_vars

-----------------------------------------------------------------------------
(* Properties: Terraform block location                                    *)

\* Brace depth after the first k tokens
RECURSIVE Depth(_, _)
Depth(text, k) ==
    IF k = 0 THEN 0
    ELSE Depth(text, k - 1)
         + (IF text[k] = LB THEN 1 ELSE IF text[k] = RB THEN -1 ELSE 0)

TopLevel(text, i) ==
    /\ \A k \in 0..(i - 1) : Depth(text, k) >= 0
    /\ Depth(text, i - 1) = 0

\* text[i..e] is  resource "T" "N" { ... }  whose body holds one nested
\* block  { ... }  and no other brace or header
NestedDeclAt(text, i, e) ==
    /\ text[i].t = "hdr" /\ text[i + 1] = LB /\ text[e] = RB
    /\ \E l, r \in (i + 2)..(e - 1) :
          /\ l < r /\ text[l] = LB /\ text[r] = RB
          /\ \A k \in ((i + 2)..(e - 1)) \ {l, r} :
                text[k] \notin {LB, RB} /\ text[k].t # "hdr"

Extracted == pc = "done" /\ op = "extract_terraform_resources"

\* C1: the record of a top-level declaration with one nested block has the
\* whole body, up to the declaration's own closing brace.
C1_NestedBodyWhole ==
    Extracted =>
        \A i \in 1..Len(arg) : \A e \in (i + 2)..Len(arg) :
            TopLevel(arg, i) /\ NestedDeclAt(arg, i, e) =>
                \E k \in DOMAIN ret :
                    /\ ret[k].type = arg[i].a /\ ret[k].name = arg[i].b
                    /\ ret[k].body = SubSeq(arg, i + 2, e - 1)

\* What the code does instead: no body ever holds a closing brace, a body
\* ends at the first "}" after the opening brace.
C1_BodyEndsAtFirstBrace ==
    Extracted =>
        \A k \in DOMAIN ret : \A j \in DOMAIN ret[k].body : ret[k].body[j] # RB

C1_Witness ==
    /\ Extracted
    /\ \E i \in 1..Len(arg) : \E e \in (i + 2)..Len(arg) :
          TopLevel(arg, i) /\ NestedDeclAt(arg, i, e)

-----------------------------------------------------------------------------
(* Properties: nested disk and volume blocks                               *)

OpOf == [aws |-> "extract_aws_ebs_from_terraform",
         azure |-> "extract_azure_disks",
         gcp |-> "extract_gcp_disks"]

\* The extractor of the provider whose body arg holds has returned
SubExtracted == pc = "done" /\ op = OpOf[arg.provider]

Blocks(items, kind) == SelectSeq(items, LAMBDA it : it.kind = kind)

SingleSuffix ==
    [aws |-> <<"_","r","o","o","t","_","v","o","l","u","m","e">>,
     azure |-> <<"_","o","s","_","d","i","s","k">>,
     gcp |-> <<"_","b","o","o","t","_","d","i","s","k">>]

MultiSuffix ==
    [aws |-> <<"_","e","b","s","_">>,
     azure |-> <<"_","d","a","t","a","_","d","i","s","k","_">>,
     gcp |-> <<"_","a","t","t","a","c","h","e","d","_","d","i","s","k","_">>]

DiskType == [aws |-> "aws_ebs_volume", azure |-> "azurerm_managed_disk",
             gcp |-> "google_compute_disk"]

SizeOf(r) == IF "volume_size" \in DOMAIN r THEN r.volume_size ELSE r.disk_size_gb

KindName ==
    [root_block_device |-> <<"_","r","o","o","t","_","b","l","o","c","k","_","d","e","v","i","c","e">>,
     ebs_block_device |-> <<"_","e","b","s","_","b","l","o","c","k","_","d","e","v","i","c","e">>,
     os_disk |-> <<"_","o","s","_","d","i","s","k">>,
     data_disk |-> <<"_","d","a","t","a","_","d","i","s","k">>,
     boot_disk |-> <<"_","b","o","o","t","_","d","i","s","k">>,
     attached_disk |-> <<"_","a","t","t","a","c","h","e","d","_","d","i","s","k">>]

-----------------------------------------------------------------------------
(* Properties: cost computation                                            *)

Calculated == pc = "done" /\ op = "calculate_costs" /\ ~raised

\* The types of the model whose price table is keyed by instance size
SizeKeyedTypes == {"aws_instance", "aws_db_instance"}

\* No price for the resource's size: no table for the type, or a size-keyed
\* table without the size
Unpriced(resource) ==
    \/ resource.type \notin DOMAIN AWS_COST_ESTIMATES
    \/ /\ resource.type \in SizeKeyedTypes
       /\ ~TableHas(AWS_COST_ESTIMATES[resource.type].items,
                    resource.instance_type)

\* C2: a resource whose size matches a GPU family prefix and has no price
\* has a breakdown with is_gpu = TRUE and monthly_cost = 0.
C2_UnpricedGpuFlagged ==
    Calculated =>
        \A i \in DOMAIN arg :
            /\ Truthy(arg[i].instance_type)
            /\ is_gpu_instance(arg[i].instance_type)
            /\ Unpriced(arg[i])
            => \E k \in DOMAIN ret :
                  /\ ret[k].resource_name = arg[i].name
                  /\ ret[k].is_gpu
                  /\ ret[k].monthly_cost = 0

\* The always-free types in the spelling of each dialect: security groups,
\* IAM roles, policies, users and groups, route tables, gateway attachments
AlwaysFree(resource) ==
    \/ Get(resource, "cf_type", "") \in free_services
    \/ resource.type \in {"aws_security_group", "aws_iam_role",
                          "aws_iam_policy", "aws_iam_user", "aws_iam_group",
                          "aws_route_table"}

\* C3: a resource of an always-free type, of either dialect, has a
\* breakdown with cost_category "free" and monthly_cost = 0.
C3_FreeServiceReportedFree ==
    Calculated =>
        \A i \in DOMAIN arg :
            AlwaysFree(arg[i]) =>
                \E k \in DOMAIN ret :
                    /\ ret[k].resource_name = arg[i].name
                    /\ ret[k].cost_category = "free"
                    /\ ret[k].monthly_cost = 0

\* C4: for a type whose price table is keyed by size, the cost is 0 when
\* the size is not a key of the table and when the size is None.
C4_LookupMissIsZero ==
    /\ pc = "done" /\ op = "get_resource_cost_detailed"
    /\ ret.resource_type \in SizeKeyedTypes
    /\ ~TableHas(AWS_COST_ESTIMATES[ret.resource_type].items, ret.instance_type)
    => ret.cost = 0

\* The (size, type) payload of a synthetic disk record and the per-GB rates
\* of its provider's price table
VolumeKinds == {"aws_ebs_volume", "azurerm_managed_disk", "google_compute_disk"}

PayloadSize(resource) ==
    IF resource.type = "aws_ebs_volume" THEN resource.volume_size
    ELSE resource.disk_size_gb

PayloadType(resource) ==
    IF resource.type = "aws_ebs_volume" THEN resource.volume_type.s
    ELSE IF resource.type = "azurerm_managed_disk" THEN resource.storage_type
    ELSE resource.disk_type

PayloadRates(resource) ==
    IF resource.type = "aws_ebs_volume"
    THEN AWS_COST_ESTIMATES["aws_ebs_volume"].items
    ELSE IF resource.type = "azurerm_managed_disk"
    THEN AZURE_COST_ESTIMATES["azurerm_managed_disk"].items
    ELSE GCP_COST_ESTIMATES["google_compute_disk"].items

\* C11: a synthetic disk of one of the three providers whose type has a
\* rate in the provider's table has a breakdown with monthly_cost = rate
\* times size.
C11_DisksCostedAsVolumes ==
    Calculated =>
        \A i \in DOMAIN arg :
            /\ arg[i].type \in VolumeKinds
            /\ TableHas(PayloadRates(arg[i]), PayloadType(arg[i]))
            => \E k \in DOMAIN ret :
                  /\ ret[k].resource_name = arg[i].name
                  /\ ret[k].monthly_cost =
                        TableGet(PayloadRates(arg[i]), PayloadType(arg[i]), 0)
                        * PayloadSize(arg[i])

\* The fraction q is m / d: its denominator divides d and its numerator,
\* scaled to the denominator d, is m
IsQuotient(q, m, d) ==
    /\ q.den > 0 /\ d % q.den = 0
    /\ q.num * (d \div q.den) = m

\* C14: every breakdown has monthly_cost M >= 0, hourly_cost = M / 730,
\* daily_cost = M / 30 and weekly_cost = M / 4.33 (= 100 M / 433).
C14_PeriodCosts ==
    Calculated =>
        \A k \in DOMAIN ret :
            /\ ret[k].monthly_cost >= 0
            /\ IsQuotient(ret[k].hourly_cost, ret[k].monthly_cost, 730)
            /\ IsQuotient(ret[k].daily_cost, ret[k].monthly_cost, 30)
            /\ IsQuotient(ret[k].weekly_cost, ret[k].monthly_cost * 100, 433)

\* A breakdown whose hourly, daily and weekly costs are not whole numbers
C14_Witness ==
    /\ Calculated
    /\ \E k \in DOMAIN ret :
          /\ ret[k].monthly_cost > 0
          /\ ret[k].hourly_cost.den > 1
          /\ ret[k].daily_cost.den > 1
          /\ ret[k].weekly_cost.den > 1

\* The resource of a breakdown of the call (names are given by position)
ResourceOf(breakdown) ==
    arg[CHOOSE i \in DOMAIN arg : arg[i].name = breakdown.resource_name]

\* The tiers in ascending order
TierRank ==
    [free |-> 0, minimal |-> 1, low |-> 2, medium |-> 3, high |-> 4,
     critical |-> 5]

\* The tier of a monthly cost in mills against 100, 500, 1000 and 5000 USD
Bucket(M, tier) ==
    /\ tier = "critical" <=> M >= 5000000
    /\ tier = "high" <=> (1000000 <= M /\ M < 5000000)
    /\ tier = "medium" <=> (500000 <= M /\ M < 1000000)
    /\ tier = "low" <=> (100000 <= M /\ M < 500000)
    /\ tier = "minimal" <=> M < 100000

\* C15: cost_category is one of the six tiers, "free" exactly for a free
\* service, else the bucket of the monthly cost; among resources that are
\* not free the tier is monotone in the monthly cost.
C15_CostCategory ==
    Calculated =>
        /\ \A k \in DOMAIN ret :
              /\ ret[k].cost_category \in DOMAIN TierRank
              /\ ret[k].cost_category = "free" <=> AlwaysFree(ResourceOf(ret[k]))
              /\ ~AlwaysFree(ResourceOf(ret[k]))
                 => Bucket(ret[k].monthly_cost, ret[k].cost_category)
        /\ \A j, k \in DOMAIN ret :
              /\ ret[j].cost_category # "free" /\ ret[k].cost_category # "free"
              /\ ret[j].monthly_cost <= ret[k].monthly_cost
              => TierRank[ret[j].cost_category] <= TierRank[ret[k].cost_category]

\* A free service next to a resource whose cost is on a threshold
C15_Witness ==
    /\ Calculated
    /\ \E j, k \in DOMAIN ret :
          /\ ret[j].cost_category = "free"
          /\ ret[k].monthly_cost = COST_WARNING_THRESHOLDS["high"]
          /\ ret[k].cost_category = "high"

Present(resource) ==
    \E k \in DOMAIN ret : ret[k].resource_name = resource.name

\* C16: every breakdown has monthly_cost >= 0; a resource is in the list
\* iff its cost is > 0 or it is a free service; a free service is in the
\* list with cost 0 and tier "free"; a resource that is not free and has
\* no price for its size is not in the list.
C16_IncludedIffPricedOrFree ==
    Calculated =>
        /\ \A k \in DOMAIN ret : ret[k].monthly_cost >= 0
        /\ \A i \in DOMAIN arg :
              /\ Present(arg[i])
                 <=> (ResourceCost(arg[i]).cost > 0 \/ AlwaysFree(arg[i]))
              /\ AlwaysFree(arg[i])
                 => \E k \in DOMAIN ret :
                       /\ ret[k].resource_name = arg[i].name
                       /\ ret[k].monthly_cost = 0
                       /\ ret[k].cost_category = "free"
              /\ (~AlwaysFree(arg[i]) /\ Unpriced(arg[i])) => ~Present(arg[i])

ComponentCosts(breakdown) ==
    [i \in DOMAIN breakdown.cost_components |->
        breakdown.cost_components[i].monthly_cost]

\* C17: a breakdown with cost_components has monthly_cost equal to the sum
\* of the components, and its "requests" and "data_transfer" components
\* are 0.
C17_ComponentsSumToMonthly ==
    Calculated =>
        \A k \in DOMAIN ret :
            ret[k].cost_components # <<>> =>
                /\ ret[k].monthly_cost = SeqSum(ComponentCosts(ret[k]))
                /\ \A i \in DOMAIN ret[k].cost_components :
                      ret[k].cost_components[i].name
                          \in {"requests", "data_transfer"}
                      => ret[k].cost_components[i].monthly_cost = 0

\* A bucket with its three components next to a volume with one
C17_Witness ==
    /\ Calculated
    /\ \E j, k \in DOMAIN ret :
          /\ Len(ret[j].cost_components) = 3 /\ ret[j].monthly_cost > 0
          /\ ret[k].resource_type = "aws_ebs_volume"
          /\ Len(ret[k].cost_components) = 1 /\ ret[k].monthly_cost > 0

-----------------------------------------------------------------------------
(* Properties: canonical types                                             *)

\* The explicit mapping of a type in the dialect asked for: the index of
\* the mapper, or the table of the CloudFormation converter
ExplicitMapping ==
    IF op = "get_canonical_name"
    THEN IF FrameworkLower[arg.framework] \in Frameworks
         THEN build_indexes(arg.mappings, FrameworkLower[arg.framework])
         ELSE <<>>
    ELSE cf_type_mapping

\* C13: the canonical type is always defined: the mapped identifier for a
\* type with an explicit mapping, the type in lower case for every other.
C13_CanonicalAlwaysDefined ==
    (pc = "done" /\ op \in {"get_canonical_name", "convert_cf_type_to_internal"})
    => /\ ~ret.none
       /\ ret.value =
             IF arg.resource_type \in DOMAIN ExplicitMapping
             THEN ExplicitMapping[arg.resource_type]
             ELSE LowerType[arg.resource_type]

-----------------------------------------------------------------------------
(* Properties: CloudFormation extraction                                   *)

CfExtracted == pc = "done" /\ op = "extract_cloudformation_resources"

CfAnalyzed == pc = "done" /\ op = "analyze_cloudformation"

\* The text loads as a mapping whose Resources is a mapping
Template(content) ==
    Loads(content) /\ content.top = "map" /\ content.Resources.kind = "map"

\* A resource entry that is a mapping whose Properties is a mapping or is
\* not given
WellFormed(entry) == entry.kind = "map" /\ entry.Properties.kind # "none"

\* The BlockDeviceMappings the extractor scans for the entry
BlockDevicesOf(entry) ==
    IF entry.Type = "AWS::EC2::LaunchTemplate"
    THEN entry.Properties.LaunchTemplateData.BlockDeviceMappings
    ELSE entry.Properties.BlockDeviceMappings

\* The data-quality problems of C5: the entry is not a mapping, or one of
\* its block device mappings has a VolumeSize that loads as an intrinsic map
Offending(entry) ==
    \/ entry.kind # "map"
    \/ /\ WellFormed(entry)
       /\ entry.Type \in resources_with_block_devices
       /\ \E j \in DOMAIN BlockDevicesOf(entry).entries :
             Construct(BlockDevicesOf(entry).entries[j].VolumeSize).k = "dict"

RecordsNamed(name) == {k \in DOMAIN ret : ret[k].name = name}

\* C5: when one resource entry of a template has a data-quality problem,
\* every other well-formed entry, before and after it, still has its
\* resource record in the extraction result.
C5_OtherResourcesExtracted ==
    CfExtracted /\ Template(arg) =>
        \A i, j \in DOMAIN arg.Resources.entries :
            /\ i # j
            /\ Offending(arg.Resources.entries[i].data)
            /\ WellFormed(arg.Resources.entries[j].data)
            => RecordsNamed(arg.Resources.entries[j].name) # {}

\* C6: for a text that parses neither as YAML nor as JSON, and for a text
\* that parses to something other than a mapping, both entry points return
\* an empty list and raise no exception.
C6_UnparseableYieldsEmpty ==
    /\ pc = "done"
    /\ op \in {"extract_cloudformation_resources", "analyze_cloudformation"}
    /\ ~Loads(arg) \/ arg.top # "map"
    => ret = <<>> /\ ~raised

C6_Witness ==
    /\ CfAnalyzed
    /\ arg.yaml = "error" /\ arg.json = "error"
    /\ ret = <<>> /\ ~raised /\ cost_breakdowns = <<>>

SizeResolved == pc = "done" /\ op = "extract_cf_instance_type"

\* The loaded value of the size key at position i
SizeValue(i) == LoadProps(arg.properties)[instance_type_keys[i]]

IsRef(value) == value.k = "dict" /\ value.key = "Ref"

Settling ==
    {i \in DOMAIN instance_type_keys :
        \/ SizeValue(i).k \notin {"absent", "dict"}
        \/ Resolves(SizeValue(i), arg.parameters)}

UsesIntrinsics(entry) ==
    /\ entry.kind = "map" /\ entry.Properties.kind = "map"
    /\ \E node \in PropertyNodes(entry.Properties) :
          node.tag \in {"Ref", "GetAtt", "Sub"}

\* C8: a YAML template whose resources use !Ref, !GetAtt or !Sub in their
\* Properties is processed without an exception by both entry points, the
\* extraction has exactly one resource record for each such resource, and
\* every scalar node tagged with one of the five intrinsic functions loads
\* as the one-key map {FunctionName: value}.
C8_IntrinsicsTolerated ==
    /\ pc = "done"
    /\ op \in {"extract_cloudformation_resources", "analyze_cloudformation"}
    /\ arg.yaml = "ok" /\ Template(arg)
    => /\ ~raised
       /\ \A i \in DOMAIN arg.Resources.entries :
             LET entry == arg.Resources.entries[i] IN
             UsesIntrinsics(entry.data) =>
                /\ CfExtracted =>
                      Cardinality({k \in RecordsNamed(entry.name) :
                                      ret[k].cf_type = entry.data.Type}) = 1
                /\ \A node \in PropertyNodes(entry.data.Properties) :
                      node.kind = "scalar" /\ node.tag \in IntrinsicTags =>
                         Construct(node) = PDict1(node.tag, node.text)

\* A block device mapping with an Ebs map whose VolumeSize is a number > 0
Sized(mapping) ==
    /\ mapping.kind = "map"
    /\ Construct(mapping.VolumeSize).k = "int"
    /\ Construct(mapping.VolumeSize).n > 0

VolumeName(resource_name, j) ==
    resource_name \o <<"_", "e", "b", "s", "_">> \o Digits(j - 1)

\* The per-GB rate of the mapping's VolumeType (gp2 when not given), for a
\* VolumeType of the price table
HasRate(mapping) ==
    \/ mapping.VolumeType.kind = "absent"
    \/ /\ Construct(mapping.VolumeType).k = "str"
       /\ TableHas(AWS_COST_ESTIMATES["aws_ebs_volume"].items,
                   Construct(mapping.VolumeType).s)

RateOf(mapping) ==
    TableGet(AWS_COST_ESTIMATES["aws_ebs_volume"].items,
             IF mapping.VolumeType.kind = "absent" THEN Gp2
             ELSE Construct(mapping.VolumeType).s, 0)

\* C9: for a resource of a type with embedded storage, the extraction has
\* exactly one aws_ebs_volume record for each BlockDeviceMappings entry
\* with an Ebs map and VolumeSize > 0 and none for the other entries, and
\* the analysis prices each such volume at rate(VolumeType) x VolumeSize.
C9_OneVolumePerSizedMapping ==
    /\ pc = "done"
    /\ op \in {"extract_cloudformation_resources", "analyze_cloudformation"}
    /\ Template(arg)
    => \A i \in DOMAIN arg.Resources.entries :
          LET entry == arg.Resources.entries[i]
              mappings == BlockDevicesOf(entry.data).entries
          IN  /\ WellFormed(entry.data)
              /\ entry.data.Type \in resources_with_block_devices
              => \A j \in DOMAIN mappings :
                    /\ CfExtracted =>
                          Cardinality({k \in RecordsNamed(VolumeName(entry.name, j)) :
                                          ret[k].type = "aws_ebs_volume"})
                          = IF Sized(mappings[j]) THEN 1 ELSE 0
                    /\ CfAnalyzed /\ Sized(mappings[j]) /\ HasRate(mappings[j]) =>
                          /\ ~raised
                          /\ \E k \in DOMAIN ret :
                                /\ ret[k].resource_name = VolumeName(entry.name, j)
                                /\ ret[k].monthly_cost =
                                      RateOf(mappings[j])
                                      * Construct(mappings[j].VolumeSize).n

-----------------------------------------------------------------------------
(* Properties: scans in sequence                                           *)

Extractors == {"extract_terraform_resources", "extract_cloudformation_resources"}

Analyses == {"analyze_terraform", "analyze_cloudformation"}

\* C12: an extractor run again on the same input, on the same or on a new
\* analyzer, returns the list it returned before: the same records in the
\* same order with the same names.
C12_ExtractionIdempotent ==
    (pc = "done" /\ op \in Extractors /\ previous.op = op)
    => (ret = previous.ret /\ raised = previous.raised)

\* A second extraction that returned a resource and its synthetic volume,
\* in either dialect
C12_Witness ==
    /\ pc = "done" /\ op \in Extractors /\ previous.op = op
    /\ Len(ret) >= 2
    /\ \E k \in DOMAIN ret : ret[k].type = "aws_ebs_volume"

\* C18: after an analysis, cost_breakdowns is the list the call returned
\* and total_monthly_cost is the sum of its monthly costs, whatever the
\* calls before it.
C18_TotalsOfLastCall ==
    (pc = "done" /\ op \in Analyses)
    => (cost_breakdowns = ret /\ total_monthly_cost = TotalOf(ret))

\* C19: analyze_cloudformation leaves the constructor table of the YAML
\* loader class as it was at the start of the process.
C19_LoaderTableUnchanged ==
    (pc = "done" /\ op = "analyze_cloudformation")
    => yaml_multi_constructors = {}

\* C20: in one scan no two resources and no two breakdowns have the same
\* name, and the lookup by name gives every resource the breakdown of its
\* own type.
C20_NamesUnique ==
    (pc = "done" /\ op = "idle_detector_analyze")
    => /\ \A j, k \in DOMAIN ret :
             j # k => ret[j].resource.name # ret[k].resource.name
       /\ \A j, k \in DOMAIN cost_breakdowns :
             j # k => cost_breakdowns[j].resource_name
                      # cost_breakdowns[k].resource_name
       /\ \A k \in DOMAIN ret :
             ret[k].cost_breakdown # <<>>
             => ret[k].cost_breakdown[1].resource_type = ret[k].resource.type

\* C21: on the file with the one block aws_instance "web" of size t3.large,
\* the extraction gives exactly one resource (aws_instance, web, t3.large)
\* and analyze_terraform returns exactly one breakdown, with monthly cost
\* 60.74, category minimal and is_gpu false.
C21_WebInstanceEndToEnd ==
    (pc = "done" /\ arg.text = WebText)
    => /\ op = "extract_terraform_resources"
          => /\ ~raised /\ Len(ret) = 1
             /\ ret[1].type = "aws_instance" /\ ret[1].name = NameWeb
             /\ ret[1].instance_type = T3Large
       /\ op = "analyze_terraform"
          => /\ ~raised /\ Len(ret) = 1
             /\ ret[1].resource_type = "aws_instance"
             /\ ret[1].resource_name = NameWeb
             /\ ret[1].instance_type = T3Large
             /\ ret[1].monthly_cost = 60740
             /\ ret[1].cost_category = "minimal"
             /\ ret[1].is_gpu = FALSE

\* analyze_terraform returned on that file
C21_Witness ==
    /\ pc = "done" /\ arg.text = WebText /\ op = "analyze_terraform"
    /\ Len(ret) = 1 /\ ret[1].monthly_cost = 60740
    /\ total_monthly_cost = 60740

-----------------------------------------------------------------------------
(* Properties: GPU instance types                                          *)

\* C27: is_gpu_instance flags an instance type, in any letter case, exactly
\* when the EC2 price table marks it as a GPU instance.
C27_GpuAgreesWithTable ==
    (pc = "done" /\ op = "is_gpu_instance" /\ arg # <<>>)
    => (ret <=> PyLower(arg) \in GpuMarkedSizes)

-----------------------------------------------------------------------------
(* Properties: AMI ids                                                     *)

Checked == pc = "done" /\ op = "check_ami"

\* C25: an id alone is classified into one of three outcomes: the id of
\* the known-vulnerable table has a CVE, its CVE ids and severity HIGH; the
\* placeholder id ami-0000000000000000 has severity LOW and a
\* recommendation about a placeholder; the well-formed id
\* ami-0123456789abcdef0 has no CVE, is not outdated and has severity INFO.
C25_AmiOutcomes ==
    (Checked /\ arg.ami_name = None)
    => /\ ret.severity \in {"HIGH", "LOW", "INFO"}
       /\ arg.ami_id = KnownVulnerableId
          => /\ ret.has_cve /\ ret.severity = "HIGH"
             /\ ret.cve_ids = <<"CVE-2024-12345">>
       /\ arg.ami_id = ZerosId
          => /\ ret.severity = "LOW"
             /\ ret.recommendation
                = "AMI appears to be a placeholder. Use actual AMI ID for deployment."
       /\ arg.ami_id = CleanId
          => /\ ~ret.has_cve /\ ~ret.is_outdated /\ ret.severity = "INFO"

-----------------------------------------------------------------------------
(* Properties: the pricing cache and the pricing getters                   *)

\* A step that is the call of the method name (the clock stands still
\* during a call)
IsCall(name) == time' = time /\ pc' = "done" /\ op' = name

\* The key a getter call looks up
GetterKey(a, name, input) ==
    IF name = "get_ec2_pricing" THEN Ec2Key(input.instance_type, a.region)
    ELSE IF name = "get_rds_pricing"
    THEN RdsKey(input.instance_class, input.engine, a.region)
    ELSE IF name = "get_vm_pricing" THEN VmKey(input.vm_size, a.region)
    ELSE InstanceKey(input.machine_type, a.region)

\* The entry of key is in the cache and its TTL has not elapsed
Fresh(key) ==
    /\ key \in DOMAIN cache.entries
    /\ time < cache.entries[key].created + cache.ttl

\* C22: set(k, v) stores v under k; set and get leave the entries of the
\* other keys as they are; get(k) before the TTL of the entry has elapsed
\* returns its value and keeps it; and a getter whose key is cached returns
\* the cached value as it is, sends no request to the live API and leaves
\* the cache as it is.
C22_CachedValueServed ==
    [][/\ IsCall("set")
          => /\ arg'.key \in DOMAIN cache'.entries
             /\ cache'.entries[arg'.key].value = arg'.value
       /\ (IsCall("set") \/ IsCall("get"))
          => \A k \in DOMAIN cache.entries \ {arg'.key} :
                /\ k \in DOMAIN cache'.entries
                /\ cache'.entries[k] = cache.entries[k]
       /\ (IsCall("get") /\ Fresh(arg'.key))
          => /\ ret' = <<cache.entries[arg'.key].value>>
             /\ cache' = cache
       /\ \A name \in {"get_ec2_pricing", "get_vm_pricing"} :
             (IsCall(name) /\ Fresh(GetterKey(api, name, arg')))
             => /\ ret' = cache.entries[GetterKey(api, name, arg')].value
                /\ ~api'.requested
                /\ cache' = cache]_vars

\* get_ec2_pricing returned the record that set had stored, on an object
\* with the live API enabled, while the cache holds another key as well
C22_Witness ==
    /\ pc = "done" /\ op = "get_ec2_pricing"
    /\ api.credentials_available /\ ~api.requested
    /\ ret.source = "cache"
    /\ Cardinality(DOMAIN cache.entries) = 2

\* C28: get(k) at a time later than the set time plus the TTL returns None
\* and removes the entry, and up to that time, the time itself included,
\* it returns the value; size() removes the expired entries and returns
\* the number of those that are left; after clear() the size is 0. The
\* entries expire at their set time plus the TTL.
C28_ExpiredNeverServed ==
    [][/\ (IsCall("get") /\ arg'.key \in DOMAIN cache.entries)
          => IF time > cache.entries[arg'.key].created + cache.ttl
             THEN ret' = <<>> /\ arg'.key \notin DOMAIN cache'.entries
             ELSE ret' = <<cache.entries[arg'.key].value>>
       /\ IsCall("size")
          => /\ DOMAIN cache'.entries
                = {k \in DOMAIN cache.entries :
                      time <= cache.entries[k].created + cache.ttl}
             /\ ret' = Cardinality(DOMAIN cache'.entries)
       /\ IsCall("clear") => PricingCache_size(cache', time').value = 0
       /\ \A k \in DOMAIN cache'.entries :
             cache'.entries[k].expires = cache'.entries[k].created + cache.ttl
      ]_vars

\* An entry served at its set time plus a TTL that is not zero
C28_Witness ==
    /\ pc = "done" /\ op = "get" /\ ret # <<>>
    /\ cache.ttl > 0
    /\ arg.key \in DOMAIN cache.entries
    /\ time = cache.entries[arg.key].created + cache.ttl

Getters ==
    {"get_ec2_pricing", "get_rds_pricing", "get_vm_pricing",
     "get_instance_pricing"}

\* The live API of the object is enabled
LiveEnabled(a) ==
    IF a.provider = "AWS" THEN a.credentials_available /\ a.pricing_client
    ELSE a.api_available

\* The size a getter was asked about and the size its result names
RequestedSize(name, input) ==
    IF name = "get_ec2_pricing" THEN input.instance_type
    ELSE IF name = "get_rds_pricing" THEN input.instance_class
    ELSE IF name = "get_vm_pricing" THEN input.vm_size
    ELSE input.machine_type

StaticTable(name) ==
    IF name = "get_ec2_pricing" THEN AWS_COST_ESTIMATES["aws_instance"]
    ELSE IF name = "get_rds_pricing" THEN AWS_COST_ESTIMATES["aws_db_instance"]
    ELSE IF name = "get_vm_pricing"
    THEN AZURE_COST_ESTIMATES["azurerm_virtual_machine"]
    ELSE GCP_COST_ESTIMATES["google_compute_instance"]

StaticPrice(name, size) ==
    IF \E i \in DOMAIN StaticTable(name).items :
          StaticTable(name).items[i][1] = size
    THEN LET i == CHOOSE i \in DOMAIN StaticTable(name).items :
                     StaticTable(name).items[i][1] = size
         IN  StaticTable(name).items[i][2]
    ELSE 0

C24_LiveWheneverBoto3 ==
    /\ (api.provider = "AWS" /\ api.boto3_available)
       => /\ api.pricing_client /\ api.credentials_available
          /\ (pc = "done" /\ op = "get_pricing_status")
             => /\ ret.api_available
                /\ ret.note = "Live AWS Pricing API is active"
    /\ (pc = "done" /\ op = "get_pricing_status")
       => ret.using_fallback = ~ret.api_available

LiveSources == {"aws_pricing_api", "azure_retail_api", "gcp_billing_api"}

\* C29: every entry of the cache has a live source; a getter that returned
\* a static fallback left nothing under its key, and with the live API
\* enabled it returned the fallback only after it had asked the live API.
C29_OnlyLiveResultsCached ==
    /\ \A k \in DOMAIN cache.entries :
          cache.entries[k].value.source \in LiveSources
    /\ (pc = "done" /\ op \in Getters /\ ret.source = "static_fallback")
       => /\ GetterKey(api, op, arg) \notin DOMAIN cache.entries
          /\ LiveEnabled(api) => api.requested

\* A fallback returned after a request that gave no price, next to a live
\* price in the cache
C29_Witness ==
    /\ pc = "done" /\ op \in Getters /\ ret.source = "static_fallback"
    /\ LiveEnabled(api) /\ api.requested
    /\ cache.entries # <<>>

-----------------------------------------------------------------------------
(* Properties: the scanner and its tool runner                             *)

\* C26: scan() on a target that does not exist returns 1 with no tool run,
\* no result recorded and no cost analysis made or logged, and the logger
\* is closed after it as after every other end of scan().
C26_MissingTargetExitsEarly ==
    (pc = "done" /\ op = "scan")
    => /\ ~logger.file_handle
       /\ ~arg.exists
          => /\ ret = 1 /\ ~raised
             /\ results = <<>>
             /\ cost_breakdowns = <<>> /\ total_monthly_cost = 0
             /\ logger.written = {"Security Scan", "not found"}

\* The scan of a missing Terraform target has returned
C26_Witness ==
    /\ pc = "done" /\ op = "scan"
    /\ ~arg.exists /\ arg.scan_type = "terraform"
    /\ ret = 1 /\ ~logger.file_handle

=============================================================================
